---------------------------- MODULE Spec2Model ----------------------------
(***************************************************************************)
(* Port manager (NetGuard): the two GUI variants of the repository,        *)
(*   "win"  = src/Windows版本/port_manager.py                               *)
(*   "root" = src/port_manager.py                                          *)
(* modelled as state machines: the refresh worker threads and the Tk       *)
(* callback queue, the netstat text scan, the port-expression parser, the  *)
(* query history and the process termination worker.                       *)
(*                                                                         *)
(* Text is modelled as sequences of one-character strings; the words of a  *)
(* netstat line that the code only ever tests as a whole (TCP, LISTENING,  *)
(* ...) are single symbols.  A line is the sequence of its whitespace      *)
(* separated tokens plus the fact whether it starts with blanks.           *)
(***************************************************************************)
EXTENDS Integers, Sequences, FiniteSets, TLC

VARIABLES
    variant,          \* which program file is running: "win" or "root"
    \* --- operating system, as far as the program observes it
    alive,            \* pids in the OS process table
    denied,           \* pids whose inspection/termination raises AccessDenied
    psutil_calls,     \* the psutil calls the kill workers have made, with their results
    \* --- snapshot normalisation (the scan inside _refresh_all_thread)
    raw_lines,        \* result.stdout.split('\n') of one netstat run
    built,            \* what the scan built from raw_lines
    process_cache,    \* self._process_cache (win)
    clock,            \* time.time(), in seconds
    last_lookup,      \* the last call of _get_process_info_cached and what it returned
    \* --- the GUI: worker threads, the Tk callback queue and what they update
    threads,          \* the worker threads started so far, each with its position
    tkq,              \* callbacks posted with root.after(0, ...), oldest first
    all_ports_data,   \* self.all_ports_data (win)
    result_text,      \* the rows of the result panel
    busy_requests,    \* refresh requests since the refresh workers were last all idle
    busy_collections, \* netstat runs started for them since then
    batch_job,        \* self._batch_job (win) and the chunk timers Tk holds for it
    collect_order,    \* history: the refresh workers in the order their netstat runs
                      \* started, and in the order they handed over a listing
    \* --- port queries and the query history
    port_entry,       \* the text of the port entry field
    current_pids,     \* self.current_pids
    messages,         \* the message boxes shown so far
    port_history,     \* self.port_history
    history_file,     \* the content of port_history.json
    last_op,          \* the last history operation, with the list before it
    \* --- the connection monitor (win)
    monitoring_active,   \* self.monitoring_active
    current_connections, \* self.current_connections
    connections_text,    \* what the connections panel shows
    closed,              \* the window has been closed
    last_start,          \* the last call of start_monitoring and what it did
    \* --- the hot-reload launcher (netguard_hotreload.py)
    hr_pc,               \* where run_app is
    child,               \* the port_manager.py process the launcher started
    mtime,               \* os.path.getmtime of the watched file
    file_mtimes,         \* the modification time the launcher has recorded
    pipe,                \* lines the child has written that the launcher has not read
    launches,            \* how often the launcher has started the child
    reloading            \* the launcher has announced a restart for a file change

osVars == <<alive, denied, clock, psutil_calls>>

scanVars == <<raw_lines, built>>

guiVars == <<threads, tkq, all_ports_data, result_text, busy_requests, busy_collections>>

queryVars == <<port_entry, current_pids, messages>>

histVars == <<port_history, history_file, last_op>>

monVars == <<monitoring_active, current_connections, connections_text, closed, last_start>>

hotVars == <<hr_pc, child, mtime, file_mtimes, pipe, launches, reloading>>

vars == <<variant, osVars, scanVars, process_cache, last_lookup, guiVars, batch_job,
          collect_order, queryVars, histVars, monVars, hotVars>>

---------------------------------------------------------------------------
(* Bounds of the model                                                     *)
\* lines of one netstat output in SpecNormalize
MaxLines == 3

\* refresh requests in one run of Spec, the start-up one included
MaxRequests == 3

\* port queries in one run of SpecQuery
MaxQueries == 1

\* history operations in one run of SpecHistory
MaxHistoryOps == 2

\* kill-by-pid requests in one run of SpecKill
MaxKills == 1

\* worker threads in one run of SpecTable, the start-up refresh included
MaxWorkers == 2

\* monitor and refresh-connections requests in one run of SpecMonitor
MaxMonitors == 2

\* polls of one monitor loop in SpecMonitor
MaxPolls == 2

\* queries in one run of SpecParse
MaxParses == 2

\* edits of the watched file in one run of SpecReload
MaxEdits == 2

\* lines the child has written and the launcher has not yet read
MaxOutput == 1

\* starts of the child in one run of SpecReload
MaxLaunches == 3

\* seconds that pass in one run of SpecCache
MaxClock == 6


---------------------------------------------------------------------------
(* Text helpers                                                            *)

Variants == {"win", "root"}

DigitChars == <<"0", "1", "2", "3", "4", "5", "6", "7", "8", "9">>

DigitSet == {DigitChars[i] : i \in 1..10}

\* str(n) / f'{n}' for a natural number n
RECURSIVE Digits(_)
Digits(n) ==
    IF n < 10 THEN <<DigitChars[n + 1]>>
    ELSE Digits(n \div 10) \o <<DigitChars[(n % 10) + 1]>>

DigitVal(c) == CHOOSE d \in 0..9 : DigitChars[d + 1] = c

\* str.isdigit()
isdigit(s) == Len(s) > 0 /\ \A i \in 1..Len(s) : s[i] \in DigitSet

RECURSIVE DecVal(_)
DecVal(s) ==
    IF Len(s) = 0 THEN 0
    ELSE 10 * DecVal(SubSeq(s, 1, Len(s) - 1)) + DigitVal(s[Len(s)])

\* str.strip(): leading and trailing blanks removed
RECURSIVE lstrip(_)
lstrip(s) == IF Len(s) > 0 /\ s[1] = " " THEN lstrip(Tail(s)) ELSE s

RECURSIVE rstrip(_)
rstrip(s) ==
    IF Len(s) > 0 /\ s[Len(s)] = " " THEN rstrip(SubSeq(s, 1, Len(s) - 1)) ELSE s

strip(s) == rstrip(lstrip(s))

\* int(s): surrounding blanks and one sign are accepted, then decimal digits.
\* IntOk(s) is "int(s) does not raise ValueError".
IntBody(s) ==
    LET t == strip(s)
    IN  IF Len(t) > 0 /\ t[1] \in {"+", "-"} THEN Tail(t) ELSE t

IntOk(s) == isdigit(IntBody(s))

IntVal(s) ==
    LET t == strip(s)
    IN  IF Len(t) > 0 /\ t[1] = "-" THEN 0 - DecVal(IntBody(s)) ELSE DecVal(IntBody(s))

\* `pat in s` for two texts
Contains(s, pat) ==
    \E i \in 0..(Len(s) - Len(pat)) : SubSeq(s, i + 1, i + Len(pat)) = pat

\* index of the first / last occurrence of character c in s, 0 when absent
FirstIndex(s, c) ==
    IF \E i \in 1..Len(s) : s[i] = c
    THEN CHOOSE i \in 1..Len(s) : s[i] = c /\ \A j \in 1..(i - 1) : s[j] # c
    ELSE 0

LastIndex(s, c) ==
    IF \E i \in 1..Len(s) : s[i] = c
    THEN CHOOSE i \in 1..Len(s) : s[i] = c /\ \A j \in (i + 1)..Len(s) : s[j] # c
    ELSE 0

\* s.split(':')[-1]
AfterLastColon(s) == SubSeq(s, LastIndex(s, ":") + 1, Len(s))

---------------------------------------------------------------------------
(* netstat lines                                                           *)

\* `not line.strip()`
LineBlank(line) == line.toks = <<>>

\* line.startswith(word): only a line without leading blanks can start with it
LineStartsWith(line, word) ==
    ~line.indent /\ ~LineBlank(line) /\ line.toks[1][1] = word

\* `pat in line` for a pattern without blanks: it lies inside one token
InLine(line, pat) == \E k \in 1..Len(line.toks) : Contains(line.toks[k], pat)

IP4Any == <<"0", ".", "0", ".", "0", ".", "0">>

IP6Any == <<"[", ":", ":", "]">>

Addr(ip, port) == ip \o <<":">> \o Digits(port)

\* "  TCP    <local>    <remote>    <state>    <pid>"
TcpLine(local, remote, state, pid) ==
    [indent |-> TRUE, toks |-> <<<<"TCP">>, local, remote, <<state>>, pid>>]

\* "  UDP    <local>    *:*    <pid>"
UdpLine(local, pid) ==
    [indent |-> TRUE, toks |-> <<<<"UDP">>, local, <<"*", ":", "*">>, pid>>]

BlankLine == [indent |-> FALSE, toks |-> <<>>]

\* all sequences over S of length at most n
BoundedSeq(S, n) == UNION {[1..k -> S] : k \in 0..n}

---------------------------------------------------------------------------
(* Process inspection (psutil) and the process-info cache                  *)

Pids == {4, 1234}

\* process.name() of a running process
ProcName(p) ==
    IF p = 4 THEN <<"S", "y", "s", "t", "e", "m">> ELSE <<"n", "g", "i", "n", "x">>

PortMax == 65535

cache_ttl == 5

NoInfo == [ok |-> FALSE, name |-> <<>>]

\* a cache whose entries are still served at the age of the TTL
CacheHitAtTtl(cache, pid, now) ==
    {e \in cache : e.pid = pid /\ now - e.timestamp <= cache_ttl}

CacheHit(cache, pid, now) ==
    {e \in cache : e.pid = pid /\ now - e.timestamp < cache_ttl}

\* _get_process_info_cached(pid): the value returned (info, NoInfo for None),
\* whether int(pid) raised ValueError out of the function, and the cache
\* afterwards.  Only the process name of the info is kept.
get_process_info_cached(cache, pid, now, al, dn) ==
    IF CacheHit(cache, pid, now) # {}
    THEN [raised |-> FALSE,
          info   |-> [ok |-> TRUE, name |-> (CHOOSE e \in CacheHit(cache, pid, now) : TRUE).name],
          cache  |-> cache]
    ELSE IF ~IntOk(pid)
    THEN [raised |-> TRUE, info |-> NoInfo, cache |-> cache]
    ELSE IF IntVal(pid) \notin al \/ IntVal(pid) \in dn
    THEN [raised |-> FALSE, info |-> NoInfo, cache |-> cache]
    ELSE [raised |-> FALSE,
          info   |-> [ok |-> TRUE, name |-> ProcName(IntVal(pid))],
          cache  |-> {e \in cache : e.pid # pid}
                        \cup {[pid |-> pid, name |-> ProcName(IntVal(pid)), timestamp |-> now]}]

---------------------------------------------------------------------------
(* The scan of one netstat output inside _refresh_all_thread               *)

\* blank lines and lines starting with TCP/UDP in column 0 are skipped
RefreshSkip(line) ==
    \/ LineBlank(line)
    \/ LineStartsWith(line, "TCP")
    \/ LineStartsWith(line, "UDP")

\* a scan that takes the local port as it stands
RefreshAcceptsAnyPort(line) ==
    /\ ~RefreshSkip(line)
    /\ InLine(line, <<"LISTENING">>)
    /\ Len(line.toks) >= 5
    /\ line.toks[5] # <<>>
    /\ Contains(line.toks[2], <<":">>)

\* a line from which the scan takes a port: LISTENING somewhere in it, at
\* least five fields, a ':' in the local address, and a local port that
\* int() accepts and that lies in 1..65535
RefreshAccepts(line) ==
    /\ ~RefreshSkip(line)
    /\ InLine(line, <<"LISTENING">>)
    /\ Len(line.toks) >= 5
    /\ line.toks[5] # <<>>
    /\ Contains(line.toks[2], <<":">>)
    /\ IntOk(AfterLastColon(line.toks[2]))
    /\ 1 <= IntVal(AfterLastColon(line.toks[2]))
    /\ IntVal(AfterLastColon(line.toks[2])) <= PortMax

\* the tuple appended to listening_ports; remote and state are the line's
\* third and fourth fields, carried along to name the entry's identity key
PortTuple(line) ==
    [port    |-> AfterLastColon(line.toks[2]),
     address |-> line.toks[2],
     pid     |-> line.toks[5],
     remote  |-> line.toks[3],
     state   |-> line.toks[4]]

EmptyScan(cache) ==
    [seen |-> {}, listening_ports |-> <<>>, all_ports_data |-> <<>>, cache |-> cache]

\* win: one iteration of `for line in lines`, with the (port, pid) dedup
WinDedupKey(line) == <<AfterLastColon(line.toks[2]), line.toks[5]>>

WinScanLine(acc, line, now, al, dn) ==
    IF ~RefreshAccepts(line) \/ WinDedupKey(line) \in acc.seen THEN acc
    ELSE LET r == get_process_info_cached(acc.cache, line.toks[5], now, al, dn)
             t == PortTuple(line)
         IN  IF r.raised
             \* ValueError of int(pid) lands in `except ValueError: continue`
             \* after seen.add and listening_ports.append
             THEN [acc EXCEPT !.seen = @ \cup {WinDedupKey(line)},
                              !.listening_ports = Append(@, t)]
             ELSE [acc EXCEPT !.seen = @ \cup {WinDedupKey(line)},
                              !.listening_ports = Append(@, t),
                              !.all_ports_data = Append(@,
                                  [port |-> t.port, pid |-> t.pid, address |-> t.address,
                                   name |-> IF r.info.ok THEN r.info.name
                                            ELSE <<"[", "?", "]">>]),
                              !.cache = r.cache]

\* root: one iteration of `for line in lines`; every accepted line is appended
RootScanLine(acc, line) ==
    IF ~RefreshAccepts(line) THEN acc
    ELSE [acc EXCEPT !.listening_ports = Append(@, PortTuple(line))]

RECURSIVE ScanLines(_, _, _, _, _, _, _)
ScanLines(v, lines, i, acc, now, al, dn) ==
    IF i > Len(lines) THEN acc
    ELSE ScanLines(v, lines, i + 1,
                   IF v = "win" THEN WinScanLine(acc, lines[i], now, al, dn)
                   ELSE RootScanLine(acc, lines[i]),
                   now, al, dn)

\* the lists a refresh builds from the lines of one successful netstat run
refresh_scan(v, lines, cache, now, al, dn) ==
    ScanLines(v, lines, 1, EmptyScan(cache), now, al, dn)

---------------------------------------------------------------------------
(* Values of the variables a specification does not use                    *)

NotBuilt == [done |-> FALSE, listening_ports |-> <<>>, all_ports_data |-> <<>>]

ScanUnused == raw_lines = <<>> /\ built = NotBuilt

GuiUnused ==
    /\ threads = <<>>
    /\ tkq = <<>>
    /\ all_ports_data = <<>>
    /\ result_text = <<>>
    /\ busy_requests = 0
    /\ busy_collections = 0

NoOp == [op |-> "none", arg |-> <<>>, before |-> <<>>, count |-> 0]

QueryUnused == port_entry = <<>> /\ current_pids = <<>> /\ messages = <<>>

NoPanel == [port |-> 0, connections |-> <<>>]

NoStart == [port |-> 0, session |-> 0, did |-> "none"]

MonUnused ==
    /\ monitoring_active = FALSE
    /\ current_connections = <<>>
    /\ connections_text = NoPanel
    /\ closed = FALSE
    /\ last_start = NoStart

\* batch_log_messages(messages, batch_size=20)
RefreshChunk == 20

\* batch_log_messages(msgs, batch_size=50)
SearchChunk == 50

\* no chunk job: self._batch_job is None and Tk holds no chunk timer
NoJob == [job |-> 0, timers |-> <<>>]

\* `if self._batch_job: self.root.after_cancel(self._batch_job); self._batch_job = None`
CancelJob(bj) ==
    IF bj.job = 0 THEN bj
    ELSE [job |-> 0, timers |-> SelectSeq(bj.timers, LAMBDA tm : tm.id # bj.job)]

\* the identifier root.after returns: one no pending timer carries
AfterId(bj) ==
    CHOOSE n \in 1..(Len(bj.timers) + 2) :
        /\ n # bj.job /\ \A k \in 1..Len(bj.timers) : bj.timers[k].id # n
        /\ \A m \in 1..(n - 1) : m = bj.job \/ \E k \in 1..Len(bj.timers) : bj.timers[k].id = m

\* _process_chunk(start_index): the panel and the job after it
process_chunk(bj, panel, msgs, start_index, batch_size) ==
    LET total == Len(msgs)
        end_index == IF start_index + batch_size < total THEN start_index + batch_size ELSE total
        shown == panel \o SubSeq(msgs, start_index + 1, end_index)
    IN  IF end_index >= total
        THEN [panel |-> shown, job |-> [bj EXCEPT !.job = 0]]
        ELSE [panel |-> shown,
              job |-> [job |-> AfterId(bj),
                       timers |-> Append(bj.timers,
                                         [id |-> AfterId(bj), messages |-> msgs,
                                          start_index |-> end_index, batch_size |-> batch_size])]]

\* batch_log_messages(messages, batch_size): the panel and the job after it
batch_log_messages(bj, panel, msgs, batch_size) ==
    IF msgs = <<>> THEN [panel |-> panel, job |-> CancelJob(bj)]
    ELSE process_chunk(CancelJob(bj), panel, msgs, 0, batch_size)

\* the order history is kept only by the specification that examines it
NoOrder == [on |-> FALSE, started |-> <<>>, handed |-> <<>>]

Recorded(field, t) ==
    IF collect_order.on THEN [collect_order EXCEPT ![field] = Append(@, t)] ELSE collect_order

NoLookup == [pid |-> <<>>, at |-> 0, returned |-> "nothing", timestamp |-> 0]

HotUnused ==
    /\ hr_pc = "off"
    /\ child = "none"
    /\ mtime = 0
    /\ file_mtimes = 0
    /\ pipe = 0
    /\ launches = 0
    /\ reloading = FALSE

HistUnused ==
    /\ port_history = [type |-> "list", items |-> <<>>]
    /\ history_file = [kind |-> "missing", value |-> [type |-> "list", items |-> <<>>]]
    /\ last_op = NoOp

---------------------------------------------------------------------------
(* SpecNormalize: the scan applied to every bounded netstat output         *)

LineCatalogue ==
    { TcpLine(Addr(IP4Any, 8080), Addr(IP4Any, 0), "LISTENING", Digits(1234)),
      TcpLine(Addr(IP6Any, 8080), Addr(IP6Any, 0), "LISTENING", Digits(1234)),
      TcpLine(Addr(IP4Any, 8080), Addr(IP4Any, 0), "LISTENING", Digits(4)),
      TcpLine(Addr(IP4Any, 80), Addr(IP4Any, 0), "LISTENING", Digits(4)),
      TcpLine(Addr(IP4Any, 9000), Addr(IP4Any, 8080), "ESTABLISHED", Digits(1234)),
      TcpLine(Addr(IP4Any, 0), Addr(IP4Any, 0), "LISTENING", Digits(4)),
      TcpLine(Addr(IP4Any, 65536), Addr(IP4Any, 0), "LISTENING", Digits(4)),
      TcpLine(IP4Any \o <<":", "*">>, Addr(IP4Any, 0), "LISTENING", Digits(4)),
      TcpLine(Addr(IP4Any, 443), Addr(IP4Any, 0), "LISTENING", <<"-">>),
      UdpLine(Addr(IP4Any, 53), Digits(4)),
      BlankLine }

InitNormalize ==
    /\ variant \in Variants
    /\ MonUnused
    /\ last_lookup = NoLookup
    /\ collect_order = NoOrder
    /\ batch_job = NoJob
    /\ HotUnused
    /\ alive \in {{}, Pids}
    /\ denied = {}
    /\ raw_lines \in BoundedSeq(LineCatalogue, MaxLines)
    /\ built = NotBuilt
    /\ process_cache = {}
    /\ clock = 0
    /\ psutil_calls = {}
    /\ GuiUnused
    /\ QueryUnused
    /\ HistUnused

\* the `for line in lines` loop of _refresh_all_thread on raw_lines
NormalizeScan ==
    /\ ~built.done
    /\ LET r == refresh_scan(variant, raw_lines, process_cache, clock, alive, denied)
       IN  /\ built' = [done |-> TRUE, listening_ports |-> r.listening_ports,
                        all_ports_data |-> r.all_ports_data]
           /\ process_cache' = r.cache
    /\ UNCHANGED <<variant, hotVars, batch_job, last_lookup, collect_order, monVars, osVars, raw_lines, guiVars, queryVars, histVars>>

NextNormalize == NormalizeScan

SpecNormalize == InitNormalize /\ [][NextNormalize]_vars

---------------------------------------------------------------------------
(* The result panel and the sorted listing                                 *)

\* a message of the panel: its text tag, which message it is, and its data
Row(tag, what, text) == [tag |-> tag, what |-> what, text |-> text]

NameUnavailable == <<"[", "?", "]">>          \* '[无法获取]'

NameMissing == <<"[", "?", "?", "]">>         \* "[无法获取进程名]"

\* key=lambda x: int(x[0]) if x[0].isdigit() else 999999
SortKey(t) == IF isdigit(t.port) THEN IntVal(t.port) ELSE 999999

\* list.sort(key=...) is stable: x goes behind every element whose key is <= its own
RECURSIVE InsertByKey(_, _)
InsertByKey(sorted, x) ==
    IF sorted = <<>> THEN <<x>>
    ELSE IF SortKey(sorted[Len(sorted)]) <= SortKey(x) THEN Append(sorted, x)
    ELSE Append(InsertByKey(SubSeq(sorted, 1, Len(sorted) - 1), x), sorted[Len(sorted)])

RECURSIVE SortPorts(_)
SortPorts(ports) ==
    IF ports = <<>> THEN <<>>
    ELSE InsertByKey(SortPorts(SubSeq(ports, 1, Len(ports) - 1)), ports[Len(ports)])

\* win, update_ui: the name shown for a listed port is the first data entry
\* with its port and pid
WinRowOf(t, data) ==
    LET hits == {k \in 1..Len(data) : data[k].port = t.port /\ data[k].pid = t.pid}
        name == IF hits = {} THEN NameMissing
                ELSE data[CHOOSE k \in hits : \A m \in hits : k <= m].name
    IN  Row(IF name # NameMissing THEN "info" ELSE "error", "port", <<t.port, t.pid, name>>)

\* win, update_ui(ports, data): the rows it puts on the panel, the first by
\* log_message and the others by batch_log_messages
WinUpdateRows(ports, data) ==
    IF ports = <<>> THEN <<Row("success", "none", <<>>)>>
    ELSE <<Row("info", "count", <<Len(ports)>>)>>
         \o [k \in 1..Len(ports) |-> WinRowOf(SortPorts(ports)[k], data)]

\* root: the display loop over the sorted listing; int(pid) of a non-numeric
\* pid raises ValueError, which ends the loop in the outer `except Exception`
RECURSIVE RootRows(_, _, _, _)
RootRows(sorted, k, al, dn) ==
    IF k > Len(sorted) THEN <<>>
    ELSE IF ~IntOk(sorted[k].pid) THEN <<Row("error", "raised", <<>>)>>
    ELSE IF IntVal(sorted[k].pid) \in al \ dn
    THEN <<Row("info", "port", <<sorted[k].port, sorted[k].pid, ProcName(IntVal(sorted[k].pid))>>)>>
         \o RootRows(sorted, k + 1, al, dn)
    ELSE <<Row("error", "port", <<sorted[k].port, sorted[k].pid, NameMissing>>)>>
         \o RootRows(sorted, k + 1, al, dn)

RootUpdateRows(ports, al, dn) ==
    IF ports = <<>> THEN <<Row("success", "none", <<>>)>>
    ELSE <<Row("info", "count", <<Len(ports)>>)>> \o RootRows(SortPorts(ports), 1, al, dn)

RefreshHeader == <<Row("header", "refresh", <<>>), Row("header", "rule", <<>>)>>

---------------------------------------------------------------------------
(* Spec: refresh requests, the refresh worker threads and the Tk queue     *)

\* a posted callback: clear_results, log (rows), update_ui (ports, data),
\* batch_update (rows, pids, found), showerror (rows),
\* update_connections (ports = the port, data = the connections)
Callback(cb, ports, data, rows, pids, found) ==
    [cb |-> cb, ports |-> ports, data |-> data, rows |-> rows, pids |-> pids, found |-> found]

ClearCallback == Callback("clear_results", <<>>, <<>>, <<>>, <<>>, FALSE)

LogCallback(rows) == Callback("log", <<>>, <<>>, rows, <<>>, FALSE)

\* a posted log_message whose lambda reads the variable of its `except ... as e`
\* clause: the clause has ended and unbound `e` by the time Tk runs the lambda
LogErrCallback(rows) == Callback("log_e", <<>>, <<>>, rows, <<>>, FALSE)

\* the callback a win worker posts when netstat failed
FailureCallback(status) ==
    IF status = "raised" THEN LogErrCallback(<<Row("error", status, <<>>)>>)
    ELSE LogCallback(<<Row("error", status, <<>>)>>)

\* a worker thread: its target, its position and its arguments (a port range)
Thread(kind, pc, lo, hi) == [kind |-> kind, pc |-> pc, lo |-> lo, hi |-> hi]

RefreshThread(pc) == Thread("refresh", pc, 0, 0)

\* the outputs netstat can print in Spec
SchedOutputs ==
    { <<TcpLine(Addr(IP4Any, 8080), Addr(IP4Any, 0), "LISTENING", Digits(1234)),
        TcpLine(Addr(IP4Any, 80), Addr(IP4Any, 0), "LISTENING", Digits(4))>>,
      <<TcpLine(Addr(IP4Any, 80), Addr(IP4Any, 0), "LISTENING", Digits(4)),
        TcpLine(Addr(IP4Any, 80), Addr(IP4Any, 0), "LISTENING", Digits(4))>> }

\* how a netstat run can fail: another returncode, TimeoutExpired (win passes
\* timeout=10, root passes none), or another exception such as OSError
FailureStatuses(v) ==
    IF v = "win" THEN {"nonzero", "timeout", "raised"} ELSE {"nonzero", "raised"}

\* subprocess.run(['netstat', '-ano'], ...): returncode 0 with its lines, or a failure
NetstatResults ==
    {[status |-> "ok", lines |-> o] : o \in SchedOutputs}
        \cup {[status |-> f, lines |-> <<>>] : f \in FailureStatuses(variant)}

RefreshWorkers == {t \in 1..Len(threads) : threads[t].kind = "refresh"}

\* a worker that has been started and has not returned
Running(t) == threads[t].pc \notin {"done", "failed"}

\* a collection that takes a failure for a result
CollectionOkAlways(res) == TRUE

\* subprocess.run returned and `result.returncode == 0` holds
CollectionOk(res) == res.status = "ok"

\* where a collecting worker ends: "failed" when its netstat run failed
EndOf(res) == IF res.status = "ok" THEN "done" ELSE "failed"

\* a refresh worker whose netstat run is in flight
Collecting(t) == threads[t].pc = "netstat"

RefreshIdle == \A t \in RefreshWorkers : ~Running(t)

Init ==
    /\ variant \in Variants
    /\ MonUnused
    /\ last_lookup = NoLookup
    /\ collect_order = [NoOrder EXCEPT !.on = TRUE]
    /\ batch_job = NoJob
    /\ HotUnused
    /\ alive = Pids
    /\ denied = {}
    /\ clock = 0
    /\ psutil_calls = {}
    /\ process_cache = {}
    /\ ScanUnused
    \* setup_ui ends with self.refresh_all()
    /\ threads = <<RefreshThread("start")>>
    /\ tkq = <<>>
    /\ all_ports_data = <<>>
    /\ result_text = <<>>
    /\ busy_requests = 1
    /\ busy_collections = 0
    /\ QueryUnused
    /\ HistUnused

\* refresh_all(): the button, Ctrl+R, F5; a thread is started unconditionally
refresh_all ==
    /\ threads' = Append(threads, RefreshThread("start"))
    /\ busy_requests' = IF RefreshIdle THEN 1 ELSE busy_requests + 1
    /\ busy_collections' = IF RefreshIdle THEN 0 ELSE busy_collections
    /\ UNCHANGED <<variant, hotVars, batch_job, last_lookup, collect_order, monVars, osVars, scanVars, process_cache, tkq, all_ports_data, result_text>>
    /\ UNCHANGED <<queryVars, histVars>>

\* _refresh_all_thread up to the call of subprocess.run: the panel is cleared
\* and the header logged (win: by posted callbacks; root: by the worker itself)
RefreshBegin(t) ==
    /\ threads[t] = RefreshThread("start")
    /\ threads' = [threads EXCEPT ![t].pc = "netstat"]
    /\ busy_collections' = busy_collections + 1
    /\ collect_order' = Recorded("started", t)
    /\ IF variant = "win"
       THEN /\ tkq' = tkq \o <<ClearCallback, LogCallback(RefreshHeader)>>
            /\ UNCHANGED result_text
       ELSE /\ result_text' = RefreshHeader
            /\ UNCHANGED tkq
    /\ UNCHANGED <<variant, hotVars, batch_job, last_lookup, monVars, osVars, scanVars, process_cache, all_ports_data, busy_requests>>
    /\ UNCHANGED <<queryVars, histVars>>

\* _refresh_all_thread from the return of subprocess.run to its end
RefreshCollect(t, res) ==
    /\ threads[t] = RefreshThread("netstat")
    /\ threads' = [threads EXCEPT ![t].pc = EndOf(res)]
    /\ collect_order' = IF CollectionOk(res) THEN Recorded("handed", t) ELSE collect_order
    /\ IF CollectionOk(res)
       THEN LET r == refresh_scan(variant, res.lines, process_cache, clock, alive, denied)
            IN  IF variant = "win"
                THEN /\ tkq' = Append(tkq, Callback("update_ui", r.listening_ports,
                                                    r.all_ports_data, <<>>, <<>>, FALSE))
                     /\ process_cache' = r.cache
                     /\ UNCHANGED result_text
                ELSE /\ result_text' = result_text \o RootUpdateRows(r.listening_ports, alive, denied)
                     /\ UNCHANGED <<tkq, process_cache>>
       ELSE IF variant = "win"
            THEN /\ tkq' = Append(tkq, FailureCallback(res.status))
                 /\ UNCHANGED <<result_text, process_cache>>
            ELSE /\ result_text' = Append(result_text, Row("error", res.status, <<>>))
                 /\ UNCHANGED <<tkq, process_cache>>
    /\ UNCHANGED <<variant, hotVars, batch_job, last_lookup, monVars, osVars, scanVars, all_ports_data, busy_requests, busy_collections>>
    /\ UNCHANGED <<queryVars, histVars>>

\* the Tk main loop runs the oldest posted callback
TkDispatch ==
    /\ tkq # <<>>
    /\ tkq' = Tail(tkq)
    /\ LET c == Head(tkq)
       IN  CASE c.cb = "clear_results" ->
                  /\ result_text' = <<>>
                  /\ batch_job' = CancelJob(batch_job)
                  /\ UNCHANGED <<all_ports_data, current_pids, messages, connections_text>>
             [] c.cb = "log" ->
                  /\ result_text' = result_text \o c.rows
                  /\ UNCHANGED <<all_ports_data, current_pids, messages, connections_text, batch_job>>
             [] c.cb = "log_e" ->
                  \* NameError inside the callback; Tk reports it and goes on
                  UNCHANGED <<all_ports_data, current_pids, messages, result_text, connections_text,
                              batch_job>>
             [] c.cb = "update_ui" ->
                  /\ all_ports_data' = c.data
                  /\ LET rows == WinUpdateRows(c.ports, c.data)
                         r == batch_log_messages(batch_job, Append(result_text, Head(rows)),
                                                 Tail(rows), RefreshChunk)
                     IN  IF c.ports = <<>>
                         THEN result_text' = result_text \o rows /\ UNCHANGED batch_job
                         ELSE result_text' = r.panel /\ batch_job' = r.job
                  /\ UNCHANGED <<current_pids, messages, connections_text>>
             [] c.cb = "batch_update" ->
                  /\ LET r == batch_log_messages(batch_job, result_text, c.rows, SearchChunk)
                     IN  /\ result_text' = r.panel
                                 \o (IF c.found THEN <<>> ELSE <<Row("success", "free", <<>>)>>)
                         /\ batch_job' = r.job
                  /\ current_pids' = c.pids
                  /\ UNCHANGED <<all_ports_data, messages, connections_text>>
             [] c.cb = "showerror" ->
                  /\ messages' = messages \o c.rows
                  /\ UNCHANGED <<all_ports_data, current_pids, result_text, connections_text, batch_job>>
             [] c.cb = "update_connections" ->
                  \* _update_connections_display(connections, port)
                  /\ connections_text' = [port |-> c.ports, connections |-> c.data]
                  /\ UNCHANGED <<all_ports_data, current_pids, messages, result_text, batch_job>>
    /\ UNCHANGED <<monitoring_active, current_connections, closed, last_start>>
    /\ UNCHANGED <<variant, hotVars, last_lookup, collect_order, osVars, scanVars, process_cache, threads, busy_requests, busy_collections>>
    /\ UNCHANGED <<port_entry, histVars>>

\* the refresh requests of one run are bounded
RefreshBudget == Len(threads) < MaxRequests

Next ==
    \/ RefreshBudget /\ refresh_all
    \/ \E t \in 1..Len(threads) : RefreshBegin(t)
    \/ \E t \in 1..Len(threads), res \in NetstatResults : RefreshCollect(t, res)
    \/ TkDispatch

Spec == Init /\ [][Next]_vars

---------------------------------------------------------------------------
(* Port expressions                                                        *)

Parsed(ok, lo, hi, error) == [ok |-> ok, lo |-> lo, hi |-> hi, error |-> error]

PortInRange(n) == 1 <= n /\ n <= PortMax

\* a parser without the `1 <= port <= 65535` tests
parse_port_range_unchecked(port_str) ==
    LET t == strip(port_str)
    IN  IF Contains(t, <<"-">>)
        THEN LET k     == FirstIndex(t, "-")
                 start == SubSeq(t, 1, k - 1)
                 end   == SubSeq(t, k + 1, Len(t))
             IN  IF ~IntOk(start) \/ ~IntOk(end) THEN Parsed(FALSE, 0, 0, "range format")
                 ELSE Parsed(TRUE, IntVal(start), IntVal(end), "")
        ELSE IF ~IntOk(t) THEN Parsed(FALSE, 0, 0, "not a number")
             ELSE Parsed(TRUE, IntVal(t), IntVal(t), "")

\* parse_port_range(port_str): (start_port, end_port), or None with the error
\* that is shown
parse_port_range(port_str) ==
    LET t == strip(port_str)
    IN  IF Contains(t, <<"-">>)
        THEN LET k     == FirstIndex(t, "-")
                 start == SubSeq(t, 1, k - 1)
                 end   == SubSeq(t, k + 1, Len(t))
             IN  IF ~IntOk(start) \/ ~IntOk(end) THEN Parsed(FALSE, 0, 0, "range format")
                 ELSE IF PortInRange(IntVal(start)) /\ PortInRange(IntVal(end))
                 THEN Parsed(TRUE, IntVal(start), IntVal(end), "")
                 ELSE Parsed(FALSE, 0, 0, "out of range")
        ELSE IF ~IntOk(t) THEN Parsed(FALSE, 0, 0, "not a number")
             ELSE IF PortInRange(IntVal(t)) THEN Parsed(TRUE, IntVal(t), IntVal(t), "")
             ELSE Parsed(FALSE, 0, 0, "out of range")

\* validate_port(port_str) of the root variant: one port, or None
validate_port(port_str) ==
    IF ~IntOk(port_str) THEN Parsed(FALSE, 0, 0, "not a number")
    ELSE IF PortInRange(IntVal(port_str))
    THEN Parsed(TRUE, IntVal(port_str), IntVal(port_str), "")
    ELSE Parsed(FALSE, 0, 0, "out of range")

---------------------------------------------------------------------------
(* The query history                                                       *)

MAX_HISTORY == 10

\* a JSON / Python value: a list of items, or something else
HList(items) == [type |-> "list", items |-> items]

Str(s) == [t |-> "str", v |-> s]

Num(s) == [t |-> "num", v |-> s]

\* list.remove(x): the first occurrence goes
RemoveFirst(items, x) ==
    LET k == CHOOSE i \in 1..Len(items) : items[i] = x /\ \A j \in 1..(i - 1) : items[j] # x
    IN  SubSeq(items, 1, k - 1) \o SubSeq(items, k + 1, Len(items))

IsIn(items, x) == \E i \in 1..Len(items) : items[i] = x

\* add_to_history(port) on the list self.port_history
add_to_history(items, port) ==
    LET removed  == IF IsIn(items, port) THEN RemoveFirst(items, port) ELSE items
        inserted == <<port>> \o removed
    IN  IF Len(inserted) > MAX_HISTORY THEN SubSeq(inserted, 1, MAX_HISTORY) ELSE inserted

\* save_port_history(): the file holds the list, unless it could not be written
save_port_history(file, value, written) ==
    IF written THEN [kind |-> "json", value |-> value] ELSE file

---------------------------------------------------------------------------
(* SpecQuery: query_port and its worker thread                             *)

RangeText(a, b) == Digits(a) \o <<"-">> \o Digits(b)

\* what the user has typed into the port entry
QueryInputs ==
    { Digits(80), Digits(8000), Digits(9000), <<" ">> \o Digits(8003),
      RangeText(8000, 8005), RangeText(9000, 8000), RangeText(8003, 8003),
      RangeText(0, 80), <<"8", "0", "-">>, <<"h", "t", "t", "p">>, <<>>,
      Digits(65536) }

\* the lines netstat prints in SpecQuery
QueryLines ==
    { TcpLine(Addr(IP4Any, 8000), Addr(IP4Any, 0), "LISTENING", Digits(1234)),
      TcpLine(Addr(IP4Any, 8003), Addr(IP4Any, 0), "LISTENING", Digits(4)),
      TcpLine(Addr(IP4Any, 9000), Addr(IP4Any, 0), "LISTENING", Digits(4)),
      TcpLine(Addr(IP4Any, 8080), Addr(IP4Any, 0), "LISTENING", Digits(1234)),
      TcpLine(Addr(IP4Any, 443), Addr(IP4Any, 8000), "ESTABLISHED", Digits(4)),
      TcpLine(Addr(IP4Any, 8000), Addr(IP4Any, 0), "TIME_WAIT", Digits(0)) }

QueryThread(pc, lo, hi) == Thread("query", pc, lo, hi)

\* `':<port>' in line` for some port of the range, on a LISTENING or ESTABLISHED line
QueryLineMatches(line, lo, hi) ==
    /\ \E port \in lo..hi : InLine(line, <<":">> \o Digits(port))
    /\ InLine(line, <<"LISTENING">>) \/ InLine(line, <<"ESTABLISHED">>)

\* the messages of one reported record
ResultGroup(line, info) ==
    <<Row("info", "local", <<line.toks[2]>>),
      Row("normal", "remote", <<line.toks[3]>>),
      Row("normal", "state", <<line.toks[4]>>),
      Row("pid", "pid", <<line.toks[5]>>),
      IF info.ok THEN Row("warning", "name", <<info.name>>) ELSE Row("error", "noinfo", <<>>),
      Row("info", "rule", <<>>)>>

EmptyQuery(cache) == [found |-> FALSE, pids |-> <<>>, rows |-> <<>>, cache |-> cache]

\* win: one iteration of `for line in lines` of _query_port_thread
WinQueryLine(acc, line, lo, hi, now, al, dn) ==
    IF ~QueryLineMatches(line, lo, hi) THEN acc
    ELSE IF Len(line.toks) < 5 \/ ~IntOk(line.toks[5]) THEN [acc EXCEPT !.found = TRUE]
    ELSE LET r == get_process_info_cached(acc.cache, line.toks[5], now, al, dn)
         IN  [acc EXCEPT !.found = TRUE,
                         !.pids = IF IsIn(@, line.toks[5]) THEN @ ELSE Append(@, line.toks[5]),
                         !.rows = @ \o ResultGroup(line, r.info),
                         !.cache = r.cache]

\* root: one iteration; psutil is asked directly and every pid is appended
RootQueryLine(acc, line, lo, al, dn) ==
    IF ~QueryLineMatches(line, lo, lo) THEN acc
    ELSE IF Len(line.toks) < 5 \/ ~IntOk(line.toks[5]) THEN [acc EXCEPT !.found = TRUE]
    ELSE [acc EXCEPT !.found = TRUE,
                     !.pids = Append(@, line.toks[5]),
                     !.rows = @ \o ResultGroup(line,
                                 IF IntVal(line.toks[5]) \in al \ dn
                                 THEN [ok |-> TRUE, name |-> ProcName(IntVal(line.toks[5]))]
                                 ELSE NoInfo)]

RECURSIVE QueryLinesFrom(_, _, _, _, _, _, _, _, _)
QueryLinesFrom(v, lines, i, acc, lo, hi, now, al, dn) ==
    IF i > Len(lines) THEN acc
    ELSE QueryLinesFrom(v, lines, i + 1,
                        IF v = "win" THEN WinQueryLine(acc, lines[i], lo, hi, now, al, dn)
                        ELSE RootQueryLine(acc, lines[i], lo, al, dn),
                        lo, hi, now, al, dn)

\* what a query worker collects from the lines of a successful netstat run
query_scan(v, lines, lo, hi, cache, now, al, dn) ==
    QueryLinesFrom(v, lines, 1, EmptyQuery(cache), lo, hi, now, al, dn)

QueryHeader == <<Row("header", "query", <<>>), Row("header", "rule", <<>>)>>

ShowErrorCallback(error) ==
    Callback("showerror", <<>>, <<>>, <<Row("error", error, <<>>)>>, <<>>, FALSE)

PostedErrors == {k \in 1..Len(tkq) : tkq[k].cb = "showerror"}

InitQuery ==
    /\ variant \in Variants
    /\ MonUnused
    /\ last_lookup = NoLookup
    /\ collect_order = NoOrder
    /\ batch_job = NoJob
    /\ HotUnused
    /\ alive = Pids
    /\ denied = {}
    /\ clock = 0
    /\ psutil_calls = {}
    /\ process_cache = {}
    /\ raw_lines \in BoundedSeq(QueryLines, MaxLines)
    /\ built = NotBuilt
    /\ threads = <<>>
    /\ tkq = <<>>
    /\ all_ports_data = <<>>
    /\ result_text = <<>>
    /\ busy_requests = 0
    /\ busy_collections = 0
    /\ port_entry \in QueryInputs
    /\ current_pids = <<>>
    /\ messages = <<>>
    /\ HistUnused

\* query_port(): the button, Return in the entry
query_port(written) ==
    /\ LET port_str == strip(port_entry)
           pr == IF variant = "win" THEN parse_port_range(port_str)
                 ELSE validate_port(port_str)
           added == HList(add_to_history(port_history.items,
                                         IF variant = "win" THEN Str(Digits(pr.lo))
                                         ELSE Str(port_str)))
       IN  IF port_str = <<>>
           THEN /\ messages' = Append(messages, Row("warning", "empty", <<>>))
                /\ UNCHANGED <<threads, tkq, histVars>>
           ELSE IF ~pr.ok
           THEN /\ IF variant = "win"
                   THEN tkq' = Append(tkq, ShowErrorCallback(pr.error)) /\ UNCHANGED messages
                   ELSE messages' = Append(messages, Row("error", pr.error, <<>>))
                                       /\ UNCHANGED tkq
                /\ UNCHANGED <<threads, histVars>>
           ELSE /\ threads' = Append(threads, QueryThread("start", pr.lo, pr.hi))
                /\ IF variant = "root" \/ pr.lo = pr.hi
                   THEN /\ port_history' = added
                        /\ history_file' = save_port_history(history_file, added, written)
                        /\ last_op' = [op |-> "add", arg |-> added.items[1],
                                       before |-> port_history.items, count |-> last_op.count]
                   ELSE UNCHANGED histVars
                /\ UNCHANGED <<tkq, messages>>
    /\ UNCHANGED <<variant, hotVars, batch_job, last_lookup, collect_order, monVars, osVars, scanVars, process_cache, all_ports_data, result_text>>
    /\ UNCHANGED <<busy_requests, busy_collections, port_entry, current_pids>>

\* _query_port_thread up to the call of subprocess.run
QueryBegin(t) ==
    /\ threads[t].kind = "query" /\ threads[t].pc = "start"
    /\ threads' = [threads EXCEPT ![t].pc = "netstat"]
    /\ IF variant = "win"
       THEN /\ tkq' = tkq \o <<ClearCallback, LogCallback(QueryHeader)>>
            /\ UNCHANGED result_text
       ELSE /\ result_text' = QueryHeader
            /\ UNCHANGED tkq
    /\ UNCHANGED <<variant, hotVars, batch_job, last_lookup, collect_order, monVars, osVars, scanVars, process_cache, all_ports_data>>
    /\ UNCHANGED <<busy_requests, busy_collections, queryVars, histVars>>

\* _query_port_thread from the return of subprocess.run to its end
QueryCollect(t, res) ==
    /\ threads[t].kind = "query" /\ threads[t].pc = "netstat"
    /\ threads' = [threads EXCEPT ![t].pc = EndOf(res)]
    /\ IF CollectionOk(res)
       THEN LET r == query_scan(variant, res.lines, threads[t].lo, threads[t].hi,
                                process_cache, clock, alive, denied)
            IN  IF variant = "win"
                THEN /\ tkq' = Append(tkq, Callback("batch_update", <<>>, <<>>,
                                                    r.rows, r.pids, r.found))
                     /\ process_cache' = r.cache
                     /\ UNCHANGED <<result_text, current_pids>>
                ELSE /\ result_text' = result_text \o r.rows
                            \o (IF r.found THEN <<>> ELSE <<Row("success", "free", <<>>)>>)
                     /\ current_pids' = IF r.found THEN r.pids ELSE <<>>
                     /\ UNCHANGED <<tkq, process_cache>>
       ELSE IF variant = "win"
            THEN /\ tkq' = Append(tkq, FailureCallback(res.status))
                 /\ UNCHANGED <<result_text, process_cache, current_pids>>
            ELSE /\ result_text' = Append(result_text, Row("error", res.status, <<>>))
                 /\ UNCHANGED <<tkq, process_cache, current_pids>>
    /\ UNCHANGED <<variant, hotVars, batch_job, last_lookup, collect_order, monVars, osVars, scanVars, all_ports_data, busy_requests, busy_collections>>
    /\ UNCHANGED <<port_entry, messages, histVars>>

\* netstat prints raw_lines, or fails
QueryNetstatResults ==
    {[status |-> "ok", lines |-> raw_lines]}
        \cup {[status |-> f, lines |-> <<>>] : f \in FailureStatuses(variant)}

\* the queries of one run are bounded
QueryBudget == Len(threads) + Len(messages) + Cardinality(PostedErrors) < MaxQueries

NextQuery ==
    \/ \E written \in BOOLEAN : QueryBudget /\ query_port(written)
    \/ \E t \in 1..Len(threads) : QueryBegin(t)
    \/ \E t \in 1..Len(threads), res \in QueryNetstatResults : QueryCollect(t, res)
    \/ TkDispatch

SpecQuery == InitQuery /\ [][NextQuery]_vars

---------------------------------------------------------------------------
(* SpecHistory: the history list from the start-up load onward             *)

RECURSIVE StrsFrom(_, _)
\* the strings "a", "a+1", ..., "b"
StrsFrom(a, b) == IF a > b THEN <<>> ELSE <<Str(Digits(a))>> \o StrsFrom(a + 1, b)

FileOf(value) == [kind |-> "json", value |-> value]

\* what port_history.json can be when the program starts
HistoryFiles ==
    { [kind |-> "missing", value |-> HList(<<>>)],
      [kind |-> "unreadable", value |-> HList(<<>>)],
      [kind |-> "corrupt", value |-> HList(<<>>)],
      FileOf(HList(<<>>)),
      FileOf(HList(StrsFrom(1, 3))),
      FileOf(HList(StrsFrom(1, 9))),
      FileOf(HList(StrsFrom(1, 10))),
      FileOf(HList(StrsFrom(1, 11))),
      FileOf(HList(<<Str(Digits(1)), Str(Digits(2)), Str(Digits(1))>>)),
      FileOf(HList(<<Num(Digits(1)), Str(Digits(2))>>)),
      FileOf([type |-> "dict", items |-> <<>>]) }

\* load_port_history(): json.load of the file, [] when it is missing or
\* reading or parsing raised
load_port_history(file) == IF file.kind = "json" THEN file.value ELSE HList(<<>>)

\* the expressions the user queries in SpecHistory
HistoryPorts == {Str(Digits(1)), Str(Digits(5)), Str(Digits(10)), Str(Digits(12))}

Op(op, arg, before) ==
    [op |-> op, arg |-> arg, before |-> before, count |-> last_op.count + 1]

InitHistory ==
    /\ variant \in Variants
    /\ MonUnused
    /\ last_lookup = NoLookup
    /\ collect_order = NoOrder
    /\ batch_job = NoJob
    /\ HotUnused
    /\ alive = Pids
    /\ denied = {}
    /\ clock = 0
    /\ psutil_calls = {}
    /\ process_cache = {}
    /\ ScanUnused
    /\ GuiUnused
    /\ QueryUnused
    /\ history_file \in HistoryFiles
    /\ port_history = load_port_history(history_file)
    /\ last_op = NoOp

HistoryFrame ==
    UNCHANGED <<variant, hotVars, batch_job, last_lookup, collect_order, monVars, osVars, scanVars, process_cache, guiVars, queryVars>>

\* add_to_history(port); on a value that is not a list, insert raises and the
\* Tk callback ends there
HistoryAdd(port, written) ==
    /\ last_op.count < MaxHistoryOps
    /\ IF port_history.type = "list"
       THEN /\ port_history' = HList(add_to_history(port_history.items, port))
            /\ history_file' = save_port_history(history_file, port_history', written)
            /\ last_op' = Op("add", port, port_history.items)
       ELSE /\ last_op' = Op("add raised", port, port_history.items)
            /\ UNCHANGED <<port_history, history_file>>
    /\ HistoryFrame

\* delete_port() of the history dialog, confirmed, for the selected index
delete_port(index, written) ==
    /\ last_op.count < MaxHistoryOps
    /\ port_history.type = "list"
    /\ index \in 1..Len(port_history.items)
    /\ port_history' = HList(SubSeq(port_history.items, 1, index - 1)
                             \o SubSeq(port_history.items, index + 1, Len(port_history.items)))
    /\ history_file' = save_port_history(history_file, port_history', written)
    /\ last_op' = Op("delete", port_history.items[index], port_history.items)
    /\ HistoryFrame

\* clear_all() of the history dialog, confirmed
clear_all(written) ==
    /\ last_op.count < MaxHistoryOps
    /\ port_history.type = "list"
    /\ port_history.items # <<>>
    /\ port_history' = HList(<<>>)
    /\ history_file' = save_port_history(history_file, port_history', written)
    /\ last_op' = Op("clear", Str(<<>>), port_history.items)
    /\ HistoryFrame

NextHistory ==
    \/ \E port \in HistoryPorts, written \in BOOLEAN : HistoryAdd(port, written)
    \/ \E index \in 1..(MAX_HISTORY + 1), written \in BOOLEAN : delete_port(index, written)
    \/ \E written \in BOOLEAN : clear_all(written)

SpecHistory == InitHistory /\ [][NextHistory]_vars

---------------------------------------------------------------------------
(* SpecKill: kill_by_pid and its worker thread                             *)

\* a kill worker; both arguments are the pid
KillThread(pc, pid) == Thread("kill", pc, pid, pid)

KillWorkers == {t \in 1..Len(threads) : threads[t].kind = "kill"}

\* a worker that terminates processes: a kill-by-pid worker, or a batch worker
\* (kill by port) that is handling one pid of its set
Terminating(t) == threads[t].kind \in {"kill", "batch"}

\* the pid the worker is handling
TargetPid(t) == IF threads[t].kind = "batch" THEN threads[t].pid ELSE threads[t].lo

\* where the worker goes on when the handling of its pid has ended, normally or
\* in an except clause: the batch loop takes its next pid; kill-by-pid verifies,
\* except that in root the except clauses are behind the verification
AfterTerminate(t, caught) ==
    IF threads[t].kind = "batch" THEN "next"
    ELSE IF variant = "win" \/ ~caught THEN "verify" ELSE "done"

\* what the user types into the pid entry
PidInputs == {Digits(4), Digits(1234), <<" ">> \o Digits(999), <<"p", "i", "d">>, <<>>}

\* psutil.Process(pid)
ProcessLookup(pid, al) == IF pid \in al THEN "ok" ELSE "NoSuchProcess"

\* process.name(), process.terminate(), process.kill()
ProcessCall(pid, al, dn) ==
    IF pid \notin al THEN "NoSuchProcess"
    ELSE IF pid \in dn THEN "AccessDenied" ELSE "ok"

\* process.wait(timeout=...)
ProcessWait(pid, al) == IF pid \in al THEN "TimeoutExpired" ELSE "ok"

\* except clauses that let NoSuchProcess through
TerminateCatchesDeniedOnly(v, exc) == exc \in {"AccessDenied", "TimeoutExpired"}

\* the except clauses around the termination: both variants end with
\* `except Exception`
TerminateCatches(v, exc) == exc \in {"NoSuchProcess", "AccessDenied", "TimeoutExpired"}

\* the except clause around the verification
VerifyCatches(v, exc) == exc = "NoSuchProcess"

KillRow(tag, what, pid) == Row(tag, what, <<Digits(pid)>>)

KillHeader(pid) == <<KillRow("header", "kill", pid)>>

\* a worker's log_message: win posts it to the Tk queue, root writes the panel
Emit(rows) ==
    IF variant = "win"
    THEN tkq' = Append(tkq, LogCallback(rows)) /\ UNCHANGED result_text
    ELSE result_text' = result_text \o rows /\ UNCHANGED tkq

\* a log_message that formats the caught exception: win posts a lambda over `e`
EmitError(rows) ==
    IF variant = "win"
    THEN tkq' = Append(tkq, LogErrCallback(rows)) /\ UNCHANGED result_text
    ELSE result_text' = result_text \o rows /\ UNCHANGED tkq

\* a psutil call of worker t for its pid; timeout is 0 for a call that has none
Call(t, pid, call, timeout, result) ==
    [thread |-> t, pid |-> pid, call |-> call, timeout |-> timeout, result |-> result]

Called(t, call, result) ==
    psutil_calls' = psutil_calls \cup {Call(t, TargetPid(t), call, 0, result)}

CalledWait(t, timeout, result) ==
    psutil_calls' = psutil_calls \cup {Call(t, TargetPid(t), "wait", timeout, result)}

\* process.wait(timeout=5) after terminate()
GracefulWait == 5

\* process.wait(timeout=3) after kill()
ForcedWait == 3

\* a handler that escalates whatever the wait returned
EscalatesAlways(result) == TRUE

\* `except psutil.TimeoutExpired` around the first wait: the forced kill follows
EscalatesOn(result) == result = "TimeoutExpired"

KillFrame ==
    UNCHANGED <<variant, hotVars, batch_job, last_lookup, collect_order, monVars, alive, denied, clock, scanVars, process_cache, all_ports_data,
                busy_requests, busy_collections, queryVars, histVars>>

\* an exception raised while the pid is handled: the except clause logs it
KillRaised(t, exc) ==
    IF TerminateCatches(variant, exc)
    THEN /\ EmitError(<<KillRow("error", exc, TargetPid(t))>>)
         /\ threads' = [threads EXCEPT ![t].pc = AfterTerminate(t, TRUE)]
    ELSE /\ threads' = [threads EXCEPT ![t].pc = "raised"]
         /\ UNCHANGED <<tkq, result_text>>

InitKill ==
    /\ variant \in Variants
    /\ MonUnused
    /\ last_lookup = NoLookup
    /\ collect_order = NoOrder
    /\ batch_job = NoJob
    /\ HotUnused
    /\ alive \in SUBSET Pids
    /\ denied \in {{}, {4}}
    /\ clock = 0
    /\ psutil_calls = {}
    /\ process_cache = {}
    /\ ScanUnused
    /\ GuiUnused
    /\ QueryUnused
    /\ HistUnused

\* kill_by_pid(): root asks for confirmation itself, win leaves that to a timer
kill_by_pid(pid_str, answer) ==
    /\ Cardinality(KillWorkers) + Len(messages) < MaxKills
    /\ LET text == strip(pid_str)
       IN  IF text = <<>>
           THEN /\ messages' = Append(messages, Row("warning", "no pid", <<>>))
                /\ UNCHANGED threads
           ELSE IF ~IntOk(text)
           THEN /\ messages' = Append(messages, Row("error", "pid not a number", <<>>))
                /\ UNCHANGED threads
           ELSE /\ threads' = IF variant = "win"
                              THEN Append(threads, KillThread("confirm", IntVal(text)))
                              ELSE IF answer
                              THEN Append(threads, KillThread("start", IntVal(text)))
                              ELSE Append(threads, KillThread("cancelled", IntVal(text)))
                /\ UNCHANGED messages
    /\ UNCHANGED <<variant, hotVars, batch_job, last_lookup, collect_order, monVars, osVars, scanVars, process_cache, tkq, all_ports_data, result_text>>
    /\ UNCHANGED <<busy_requests, busy_collections, port_entry, current_pids, histVars>>

\* _confirm_and_kill(pid, confirm_msg) of the win variant, run by the timer
confirm_and_kill(t, answer) ==
    /\ threads[t].kind = "kill" /\ threads[t].pc = "confirm"
    /\ IF answer
       THEN /\ result_text' = result_text \o KillHeader(threads[t].lo)
            /\ threads' = [threads EXCEPT ![t].pc = "start"]
       ELSE /\ threads' = [threads EXCEPT ![t].pc = "cancelled"]
            /\ UNCHANGED result_text
    /\ UNCHANGED <<psutil_calls, tkq>>
    /\ KillFrame

\* process = psutil.Process(pid)
KillLookup(t) ==
    /\ Terminating(t) /\ threads[t].pc = "start"
    /\ LET r == ProcessLookup(TargetPid(t), alive)
           \* root's _kill_by_pid_thread logs its header before anything else
           header == variant = "root" /\ threads[t].kind = "kill"
       IN  /\ Called(t, "Process", r)
           /\ IF r = "ok"
              THEN /\ threads' = [threads EXCEPT ![t].pc = "name"]
                   /\ IF header THEN Emit(KillHeader(TargetPid(t)))
                      ELSE UNCHANGED <<tkq, result_text>>
              ELSE IF header /\ TerminateCatches(variant, r)
              THEN /\ result_text' = result_text \o KillHeader(TargetPid(t))
                                        \o <<KillRow("error", r, TargetPid(t))>>
                   /\ threads' = [threads EXCEPT ![t].pc = "done"]
                   /\ UNCHANGED tkq
              ELSE KillRaised(t, r)
    /\ KillFrame

\* process_name = process.name() and the message that names the target
KillName(t) ==
    /\ Terminating(t) /\ threads[t].pc = "name"
    /\ LET r == ProcessCall(TargetPid(t), alive, denied)
       IN  /\ Called(t, "name", r)
           /\ IF r = "ok"
              THEN /\ threads' = [threads EXCEPT ![t].pc = "terminate"]
                   /\ Emit(<<KillRow("normal", "target", TargetPid(t))>>)
              ELSE KillRaised(t, r)
    /\ KillFrame

\* process.terminate()
KillTerminate(t) ==
    /\ Terminating(t) /\ threads[t].pc = "terminate"
    /\ LET r == ProcessCall(TargetPid(t), alive, denied)
       IN  /\ Called(t, "terminate", r)
           /\ IF r = "ok"
              THEN /\ threads' = [threads EXCEPT ![t].pc = "wait"]
                   /\ UNCHANGED <<tkq, result_text>>
              ELSE KillRaised(t, r)
    /\ KillFrame

\* process.wait(timeout=5)
KillWait(t) ==
    /\ Terminating(t) /\ threads[t].pc = "wait"
    /\ LET r == ProcessWait(TargetPid(t), alive)
       IN  /\ CalledWait(t, GracefulWait, r)
           /\ IF ~EscalatesOn(r)
              THEN /\ threads' = [threads EXCEPT ![t].pc = AfterTerminate(t, FALSE)]
                   /\ Emit(<<KillRow("success", "terminated", TargetPid(t))>>)
              ELSE /\ threads' = [threads EXCEPT ![t].pc = "kill"]
                   /\ Emit(<<KillRow("info", "forcing", TargetPid(t))>>)
    /\ KillFrame

\* process.kill() in the TimeoutExpired handler
KillForce(t) ==
    /\ Terminating(t) /\ threads[t].pc = "kill"
    /\ LET r == ProcessCall(TargetPid(t), alive, denied)
       IN  /\ Called(t, "kill", r)
           /\ IF r = "ok"
              THEN /\ threads' = [threads EXCEPT ![t].pc = "wait forced"]
                   /\ UNCHANGED <<tkq, result_text>>
              ELSE KillRaised(t, r)
    /\ KillFrame

\* process.wait(timeout=3) after the kill
KillWaitForced(t) ==
    /\ Terminating(t) /\ threads[t].pc = "wait forced"
    /\ LET r == ProcessWait(TargetPid(t), alive)
       IN  /\ CalledWait(t, ForcedWait, r)
           /\ IF r = "ok"
              THEN /\ threads' = [threads EXCEPT ![t].pc = AfterTerminate(t, FALSE)]
                   /\ Emit(<<KillRow("success", "forced", TargetPid(t))>>)
              ELSE KillRaised(t, r)
    /\ KillFrame

\* the verification: psutil.Process(pid) once more
KillVerify(t) ==
    /\ threads[t].kind = "kill" /\ threads[t].pc = "verify"
    /\ LET r == ProcessLookup(threads[t].lo, alive)
       IN  /\ Called(t, "verify", r)
           /\ IF r = "ok"
              THEN /\ threads' = [threads EXCEPT ![t].pc = "done"]
                   /\ Emit(<<KillRow("error", "still running", threads[t].lo)>>)
              ELSE IF VerifyCatches(variant, r)
              THEN /\ threads' = [threads EXCEPT ![t].pc = "done"]
                   /\ Emit(<<KillRow("success", "verified", threads[t].lo)>>)
              ELSE /\ threads' = [threads EXCEPT ![t].pc = "raised"]
                   /\ UNCHANGED <<tkq, result_text>>
    /\ KillFrame

\* a process ends, by itself or because it was told to
ProcessExit(pid) ==
    /\ pid \in alive
    /\ alive' = alive \ {pid}
    /\ UNCHANGED <<variant, hotVars, batch_job, last_lookup, collect_order, monVars, denied, clock, psutil_calls, scanVars, process_cache>>
    /\ UNCHANGED <<guiVars, queryVars, histVars>>

NextKill ==
    \/ \E pid_str \in PidInputs, answer \in BOOLEAN : kill_by_pid(pid_str, answer)
    \/ \E t \in 1..Len(threads), answer \in BOOLEAN : confirm_and_kill(t, answer)
    \/ \E t \in 1..Len(threads) : KillLookup(t)
    \/ \E t \in 1..Len(threads) : KillName(t)
    \/ \E t \in 1..Len(threads) : KillTerminate(t)
    \/ \E t \in 1..Len(threads) : KillWait(t)
    \/ \E t \in 1..Len(threads) : KillForce(t)
    \/ \E t \in 1..Len(threads) : KillWaitForced(t)
    \/ \E t \in 1..Len(threads) : KillVerify(t)
    \/ \E pid \in Pids : ProcessExit(pid)
    \/ TkDispatch

SpecKill == InitKill /\ [][NextKill]_vars

---------------------------------------------------------------------------
(* SpecBatch: kill_process (kill by port) and its worker thread            *)

\* a batch worker: the port range it was started for, the netstat lines it
\* read (the local list `lines`), the pids it collected (the local set `pids`),
\* those the loop has not reached yet, those it has taken so far, and the one
\* it is handling
BatchThread(pc, lo, hi) ==
    [kind |-> "batch", pc |-> pc, lo |-> lo, hi |-> hi, lines |-> <<>>,
     pids |-> {}, todo |-> {}, attempts |-> <<>>, pid |-> 0]

BatchWorkers == {t \in 1..Len(threads) : threads[t].kind = "batch"}

\* the expressions in the port entry when the kill button is pressed
BatchInputs == {Digits(8000), RangeText(8000, 8003), <<"h", "t", "t", "p">>, <<>>}

\* a line for a listener on the port, owned by the pid
BatchLine(port, pid) == TcpLine(Addr(IP4Any, port), Addr(IP4Any, 0), "LISTENING", pid)

\* the outputs netstat can print in SpecBatch
BatchOutputs ==
    { <<BatchLine(8000, Digits(1234)), BatchLine(8000, Digits(4)), BatchLine(8003, Digits(999))>>,
      <<BatchLine(8000, Digits(4)), BatchLine(8000, Digits(4))>>,
      <<BatchLine(8000, <<"-">>), BatchLine(9000, Digits(1234))>>,
      <<TcpLine(Addr(IP4Any, 9000), Addr(IP4Any, 8000), "ESTABLISHED", Digits(1234))>> }

\* the first netstat run of a batch worker: its lines, or a failure
BatchNetstatResults ==
    {[status |-> "ok", lines |-> o] : o \in BatchOutputs}
        \cup {[status |-> f, lines |-> <<>>] : f \in FailureStatuses(variant)}

\* the set `pids` built by the scan of _kill_process_thread
batch_pids(lines, lo, hi) ==
    {lines[i].toks[5] : i \in {k \in 1..Len(lines) :
        /\ QueryLineMatches(lines[k], lo, hi)
        /\ Len(lines[k].toks) >= 5
        /\ IntOk(lines[k].toks[5])}}

BatchHeader(lo, hi) ==
    <<Row("header", "kill ports", <<Digits(lo), Digits(hi)>>), Row("header", "rule", <<>>)>>

BatchFrame ==
    UNCHANGED <<variant, hotVars, last_lookup, collect_order, monVars, osVars, scanVars, process_cache, tkq, all_ports_data,
                busy_requests, busy_collections, queryVars, histVars>>

InitBatch ==
    /\ variant \in Variants
    /\ MonUnused
    /\ last_lookup = NoLookup
    /\ collect_order = NoOrder
    /\ batch_job = NoJob
    /\ HotUnused
    /\ alive \in SUBSET Pids
    /\ denied \in {{}, {4}}
    /\ clock = 0
    /\ psutil_calls = {}
    /\ process_cache = {}
    /\ ScanUnused
    /\ GuiUnused
    /\ QueryUnused
    /\ HistUnused

\* kill_process(): the kill button
kill_process(port_str, answer) ==
    /\ Cardinality(BatchWorkers) + Len(messages) + Cardinality(PostedErrors) < MaxKills
    /\ LET text == strip(port_str)
           pr == IF variant = "win" THEN parse_port_range(text) ELSE validate_port(text)
       IN  IF text = <<>>
           THEN /\ messages' = Append(messages, Row("warning", "no port", <<>>))
                /\ UNCHANGED <<threads, tkq>>
           ELSE IF ~pr.ok
           THEN /\ IF variant = "win"
                   THEN tkq' = Append(tkq, ShowErrorCallback(pr.error)) /\ UNCHANGED messages
                   ELSE messages' = Append(messages, Row("error", pr.error, <<>>))
                                       /\ UNCHANGED tkq
                /\ UNCHANGED threads
           ELSE /\ threads' = Append(threads, BatchThread(IF answer THEN "begin" ELSE "cancelled",
                                                          pr.lo, pr.hi))
                /\ UNCHANGED <<tkq, messages>>
    /\ UNCHANGED <<variant, hotVars, batch_job, last_lookup, collect_order, monVars, osVars, scanVars, process_cache, all_ports_data, result_text>>
    /\ UNCHANGED <<busy_requests, busy_collections, port_entry, current_pids, histVars>>

\* _kill_process_thread up to the call of subprocess.run; the worker clears
\* the panel and logs the header itself
BatchBegin(t) ==
    /\ threads[t].kind = "batch" /\ threads[t].pc = "begin"
    /\ threads' = [threads EXCEPT ![t].pc = "netstat"]
    /\ result_text' = BatchHeader(threads[t].lo, threads[t].hi)
    /\ batch_job' = IF variant = "win" THEN CancelJob(batch_job) ELSE batch_job
    /\ BatchFrame

\* from the return of subprocess.run to the start of `for pid in pids`
BatchCollect(t, res) ==
    /\ threads[t].kind = "batch" /\ threads[t].pc = "netstat"
    /\ IF res.status = "ok"
       THEN LET pids == batch_pids(res.lines, threads[t].lo, threads[t].hi)
            IN  IF pids = {}
                THEN /\ threads' = [threads EXCEPT ![t].pc = "done"]
                     /\ result_text' = Append(result_text, Row("info", "free", <<>>))
                ELSE /\ threads' = [threads EXCEPT ![t].pc = "next", ![t].lines = res.lines,
                                                   ![t].pids = pids, ![t].todo = pids]
                     /\ UNCHANGED result_text
       ELSE /\ threads' = [threads EXCEPT ![t].pc = "done"]
            /\ result_text' = Append(result_text, Row("error", res.status, <<>>))
    /\ BatchFrame /\ UNCHANGED batch_job

\* `for pid in pids`: the next pid of the set, in the set's order, or the end of the loop
BatchNext(t) ==
    /\ threads[t].kind = "batch" /\ threads[t].pc = "next"
    /\ IF threads[t].todo = {}
       THEN /\ threads' = [threads EXCEPT ![t].pc = "recheck"]
            /\ result_text' = Append(result_text, Row("info", "verifying", <<>>))
       ELSE /\ \E pid \in threads[t].todo :
                  threads' = [threads EXCEPT ![t].pc = "start",
                                             ![t].todo = @ \ {pid},
                                             ![t].attempts = Append(@, pid),
                                             ![t].pid = IntVal(pid)]
            /\ UNCHANGED result_text
    /\ BatchFrame /\ UNCHANGED batch_job

\* time.sleep(1), the second netstat run and its message
BatchRecheck(t, outcome) ==
    /\ threads[t].kind = "batch" /\ threads[t].pc = "recheck"
    /\ threads' = [threads EXCEPT ![t].pc = "done"]
    /\ result_text' =
          IF outcome = "nonzero" THEN result_text
          ELSE Append(result_text,
                      Row(IF outcome = "released" THEN "success" ELSE "error", outcome, <<>>))
    /\ BatchFrame /\ UNCHANGED batch_job

\* what the second netstat run can show
RecheckOutcomes == {"released", "still occupied"} \cup FailureStatuses(variant)

NextBatch ==
    \/ \E port_str \in BatchInputs, answer \in BOOLEAN : kill_process(port_str, answer)
    \/ \E t \in 1..Len(threads) : BatchBegin(t)
    \/ \E t \in 1..Len(threads), res \in BatchNetstatResults : BatchCollect(t, res)
    \/ \E t \in 1..Len(threads) : BatchNext(t)
    \/ \E t \in 1..Len(threads) : KillLookup(t)
    \/ \E t \in 1..Len(threads) : KillName(t)
    \/ \E t \in 1..Len(threads) : KillTerminate(t)
    \/ \E t \in 1..Len(threads) : KillWait(t)
    \/ \E t \in 1..Len(threads) : KillForce(t)
    \/ \E t \in 1..Len(threads) : KillWaitForced(t)
    \/ \E t \in 1..Len(threads), outcome \in RecheckOutcomes : BatchRecheck(t, outcome)
    \/ \E pid \in Pids : ProcessExit(pid)
    \/ TkDispatch

SpecBatch == InitBatch /\ [][NextBatch]_vars

---------------------------------------------------------------------------
(* SpecTable: refreshes and port queries side by side                      *)

\* what the port entry holds in SpecTable
TableInputs == {Digits(80)}

\* the program after construction, with a port typed into the entry
InitTable ==
    /\ variant \in Variants
    /\ MonUnused
    /\ last_lookup = NoLookup
    /\ collect_order = NoOrder
    /\ batch_job = NoJob
    /\ HotUnused
    /\ alive = Pids
    /\ denied = {}
    /\ clock = 0
    /\ psutil_calls = {}
    /\ process_cache = {}
    /\ ScanUnused
    /\ threads = <<RefreshThread("start")>>
    /\ tkq = <<>>
    /\ all_ports_data = <<>>
    /\ result_text = <<>>
    /\ busy_requests = 1
    /\ busy_collections = 0
    /\ port_entry \in TableInputs
    /\ current_pids = <<>>
    /\ messages = <<>>
    /\ HistUnused

\* the workers of one run are bounded
TableBudget == Len(threads) < MaxWorkers

NextTable ==
    \/ TableBudget /\ refresh_all
    \/ \E t \in 1..Len(threads) : RefreshBegin(t)
    \/ \E t \in 1..Len(threads), res \in NetstatResults : RefreshCollect(t, res)
    \/ TableBudget /\ query_port(TRUE)
    \/ \E t \in 1..Len(threads) : QueryBegin(t)
    \/ \E t \in 1..Len(threads), res \in NetstatResults : QueryCollect(t, res)
    \/ TkDispatch

SpecTable == InitTable /\ [][NextTable]_vars

---------------------------------------------------------------------------
(* SpecSearch (win): the search box over the table while refreshes run,    *)
(* with the scan of a refresh worker taken one netstat line at a time      *)

UpperChars ==
    <<"A", "B", "C", "D", "E", "F", "G", "H", "I", "J", "K", "L", "M",
      "N", "O", "P", "Q", "R", "S", "T", "U", "V", "W", "X", "Y", "Z">>

LowerChars ==
    <<"a", "b", "c", "d", "e", "f", "g", "h", "i", "j", "k", "l", "m",
      "n", "o", "p", "q", "r", "s", "t", "u", "v", "w", "x", "y", "z">>

\* str.lower()
lower(s) ==
    [i \in 1..Len(s) |->
        IF \E k \in 1..26 : UpperChars[k] = s[i]
        THEN LowerChars[CHOOSE k \in 1..26 : UpperChars[k] = s[i]]
        ELSE s[i]]

\* what can stand in the search box when filter_ports runs
Keywords == {Digits(80), <<"S", "y", "s">>, <<" ">>}

\* keyword in data['port'].lower() or ... data['pid'] ... or ... data['name']
KeywordMatches(keyword, data) ==
    \/ Contains(lower(data.port), keyword)
    \/ Contains(lower(data.pid), keyword)
    \/ Contains(lower(data.name), keyword)

\* matching_ports: the entries of the table that match, in the table's order
matching_ports(keyword, table) ==
    SelectSeq(table, LAMBDA data : KeywordMatches(keyword, data))

\* the rows filter_ports puts on the cleared panel
SearchRows(keyword, table) ==
    LET m == matching_ports(keyword, table)
    IN  IF m # <<>>
        THEN <<Row("header", "search", <<Len(m)>>), Row("header", "rule", <<>>)>>
                 \o [k \in 1..Len(m) |-> Row("info", "match", <<m[k].port, m[k].pid, m[k].name>>)]
        ELSE <<Row("warning", "search none", <<keyword>>)>>

\* filter_ports after the keyword test: with matches the panel is emptied and
\* the rows go through batch_log_messages; without, the panel is emptied and
\* the message logged, and self._batch_job is not looked at
Searched(bj, keyword, table) ==
    IF matching_ports(keyword, table) # <<>>
    THEN batch_log_messages(bj, <<>>, SearchRows(keyword, table), SearchChunk)
    ELSE [panel |-> SearchRows(keyword, table), job |-> bj]

\* filter_ports() with `text` in the search box; it runs as a Tk callback
filter_ports(text) ==
    /\ variant = "win"
    /\ LET keyword == lower(strip(text))
       IN  IF keyword = <<>> THEN UNCHANGED <<result_text, batch_job>>
           ELSE /\ result_text' = Searched(batch_job, keyword, all_ports_data).panel
                /\ batch_job' = Searched(batch_job, keyword, all_ports_data).job
    /\ UNCHANGED <<variant, hotVars, last_lookup, collect_order, monVars, osVars, scanVars, process_cache, threads, tkq, all_ports_data>>
    /\ UNCHANGED <<busy_requests, busy_collections, queryVars, histVars>>

\* a refresh worker inside `for line in lines`: i is the next line, acc holds
\* the worker's local seen_ports, listening_ports and all_ports_data
ScanThread(lines, i, acc) ==
    [kind |-> "refresh", pc |-> "scan", lo |-> 0, hi |-> 0,
     lines |-> lines, i |-> i, acc |-> acc]

\* a scan whose appends would go to self.all_ports_data
SharedTableAppended(table, acc) == acc.all_ports_data

\* self.all_ports_data while a worker scans: the worker appends to its local
\* list `all_ports_data`, the attribute is assigned by update_ui alone
SharedTable(table, acc) == table

\* subprocess.run returned with returncode 0: lines = result.stdout.split('\n')
ScanStart(t, res) ==
    /\ threads[t] = RefreshThread("netstat")
    /\ CollectionOk(res)
    /\ threads' = [threads EXCEPT ![t] = ScanThread(res.lines, 1, EmptyScan({}))]
    /\ UNCHANGED <<variant, hotVars, batch_job, last_lookup, collect_order, monVars, osVars, scanVars, process_cache, tkq, all_ports_data, result_text>>
    /\ UNCHANGED <<busy_requests, busy_collections, queryVars, histVars>>

\* one iteration of `for line in lines`; the process cache is the shared one
ScanStep(t) ==
    /\ threads[t].pc = "scan"
    /\ threads[t].i <= Len(threads[t].lines)
    /\ LET acc == WinScanLine([threads[t].acc EXCEPT !.cache = process_cache],
                              threads[t].lines[threads[t].i], clock, alive, denied)
       IN  /\ threads' = [threads EXCEPT ![t] =
                             ScanThread(threads[t].lines, threads[t].i + 1,
                                        [acc EXCEPT !.cache = {}])]
           /\ process_cache' = acc.cache
           /\ all_ports_data' = SharedTable(all_ports_data, acc)
    /\ UNCHANGED <<variant, hotVars, batch_job, last_lookup, collect_order, monVars, osVars, scanVars, tkq, result_text>>
    /\ UNCHANGED <<busy_requests, busy_collections, queryVars, histVars>>

\* after the loop: self.root.after(0, lambda: update_ui(listening_ports, all_ports_data))
ScanPost(t) ==
    /\ threads[t].pc = "scan"
    /\ threads[t].i > Len(threads[t].lines)
    /\ threads' = [threads EXCEPT ![t] = RefreshThread("done")]
    /\ collect_order' = Recorded("handed", t)
    /\ tkq' = Append(tkq, Callback("update_ui", threads[t].acc.listening_ports,
                                   threads[t].acc.all_ports_data, <<>>, <<>>, FALSE))
    /\ UNCHANGED <<variant, hotVars, batch_job, last_lookup, monVars, osVars, scanVars, process_cache, all_ports_data, result_text>>
    /\ UNCHANGED <<busy_requests, busy_collections, queryVars, histVars>>

InitSearch ==
    /\ variant = "win"
    /\ MonUnused
    /\ last_lookup = NoLookup
    /\ collect_order = NoOrder
    /\ batch_job = NoJob
    /\ HotUnused
    /\ alive = Pids
    /\ denied = {}
    /\ clock = 0
    /\ psutil_calls = {}
    /\ process_cache = {}
    /\ ScanUnused
    /\ threads = <<RefreshThread("start")>>
    /\ tkq = <<>>
    /\ all_ports_data = <<>>
    /\ result_text = <<>>
    /\ busy_requests = 1
    /\ busy_collections = 0
    /\ QueryUnused
    /\ HistUnused

NextSearch ==
    \/ TableBudget /\ refresh_all
    \/ \E t \in 1..Len(threads) : RefreshBegin(t)
    \/ \E t \in 1..Len(threads), res \in NetstatResults : ScanStart(t, res)
    \/ \E t \in 1..Len(threads) : ScanStep(t)
    \/ \E t \in 1..Len(threads) : ScanPost(t)
    \/ \E text \in Keywords : filter_ports(text)
    \/ TkDispatch

SpecSearch == InitSearch /\ [][NextSearch]_vars

---------------------------------------------------------------------------
(* SpecChunk (win): listings longer than one chunk of batch_log_messages,  *)
(* the chunk timers, and the search box                                    *)

\* a netstat output with one listener more than a chunk of the refresh holds
BigListing ==
    [k \in 1..(RefreshChunk + 1) |->
        TcpLine(Addr(IP4Any, 8000 + k), Addr(IP4Any, 0), "LISTENING", Digits(4))]

\* the netstat runs of SpecChunk: the long listing, a single listener, a failure
ChunkNetstatResults ==
    {[status |-> "ok", lines |-> BigListing],
     [status |-> "ok", lines |-> <<BigListing[1]>>],
     [status |-> "timeout", lines |-> <<>>]}

\* what the search box holds: the pid of every row, one port, a text no row has
ChunkKeywords == {Digits(4), Digits(8001), <<"z">>}

\* Tk runs the chunk timer that is due first: _process_chunk(end_index)
ProcessChunk ==
    /\ variant = "win"
    /\ batch_job.timers # <<>>
    /\ LET tm == Head(batch_job.timers)
           r == process_chunk([batch_job EXCEPT !.timers = Tail(@)], result_text,
                              tm.messages, tm.start_index, tm.batch_size)
       IN  result_text' = r.panel /\ batch_job' = r.job
    /\ UNCHANGED <<variant, hotVars, last_lookup, collect_order, monVars, osVars, scanVars, process_cache, threads, tkq, all_ports_data>>
    /\ UNCHANGED <<busy_requests, busy_collections, queryVars, histVars>>

InitChunk == InitSearch

NextChunk ==
    \/ TableBudget /\ refresh_all
    \/ \E t \in 1..Len(threads) : RefreshBegin(t)
    \/ \E t \in 1..Len(threads), res \in ChunkNetstatResults : RefreshCollect(t, res)
    \/ \E text \in ChunkKeywords : filter_ports(text)
    \/ TkDispatch
    \/ ProcessChunk

SpecChunk == InitChunk /\ [][NextChunk]_vars

---------------------------------------------------------------------------
(* SpecMonitor (win): the connection monitor                               *)

\* a _monitor_connections thread for `port`.  polls counts the polls it has
\* begun.  stopped is history: "no", or where the loop was when
\* stop_monitoring last found it alive: "starting" (before its first test of
\* the flag), "polling" (inside psutil.net_connections), "sleeping" (in
\* time.sleep, which a loop stopped while polling reaches next)
MonitorThread(pc, port, polls, stopped) ==
    [kind |-> "monitor", pc |-> pc, lo |-> port, hi |-> port,
     polls |-> polls, stopped |-> stopped]

\* a _get_connections_info thread started by refresh_connections
ConnectionsThread(pc, port) == Thread("connections", pc, port, port)

MonitorWorkers == {t \in 1..Len(threads) : threads[t].kind = "monitor"}

\* what can stand in the port field when a monitor button is pressed
MonitorInputs == {Digits(80), Digits(8080), RangeText(80, 81), <<>>, <<"x">>}

\* one entry of psutil.net_connections(): local port and pid (0 for None)
SysConn(port, pid) == [port |-> port, pid |-> pid]

\* what psutil.net_connections() can return, or that it raised
NetConnections ==
    {[raised |-> FALSE, conns |-> c] :
        c \in {<<>>, <<SysConn(80, 4)>>, <<SysConn(8080, 0), SysConn(80, 4)>>}}
    \cup {[raised |-> TRUE, conns |-> <<>>]}

\* the loop of _get_connections_info over the entries from index i on
RECURSIVE ConnScan(_, _, _, _, _, _, _)
ConnScan(conns, i, port, acc, now, al, dn) ==
    IF i > Len(conns) THEN acc
    ELSE IF conns[i].port # port THEN ConnScan(conns, i + 1, port, acc, now, al, dn)
    ELSE LET r == IF conns[i].pid = 0
                  THEN [raised |-> FALSE, info |-> NoInfo, cache |-> acc.cache]
                  ELSE get_process_info_cached(acc.cache, Digits(conns[i].pid), now, al, dn)
             c == [local_port |-> port, pid |-> conns[i].pid,
                   process_name |-> IF r.info.ok THEN r.info.name
                                    ELSE <<"U", "n", "k", "n", "o", "w", "n">>]
         IN  ConnScan(conns, i + 1, port,
                      [connections |-> Append(acc.connections, c), cache |-> r.cache],
                      now, al, dn)

\* the session's port: the argument of the monitor thread started last
SessionPort ==
    IF monitoring_active /\ MonitorWorkers # {}
    THEN threads[CHOOSE t \in MonitorWorkers : \A u \in MonitorWorkers : u <= t].lo
    ELSE 0

\* start_monitoring() with `text` typed into the port field
start_monitoring(text) ==
    /\ port_entry' = text
    /\ LET port_str == strip(text)
           pr == parse_port_range(port_str)
           did(what) == [port |-> IF pr.ok /\ pr.lo = pr.hi THEN pr.lo ELSE 0,
                         session |-> SessionPort, did |-> what]
       IN  IF monitoring_active
           THEN /\ last_start' = did("returned")
                /\ UNCHANGED <<monitoring_active, threads, tkq, messages, result_text>>
           ELSE IF port_str = <<>>
           THEN /\ messages' = Append(messages, Row("warning", "empty", <<>>))
                /\ last_start' = did("warned")
                /\ UNCHANGED <<monitoring_active, threads, tkq, result_text>>
           ELSE IF ~pr.ok
           THEN /\ tkq' = Append(tkq, ShowErrorCallback(pr.error))
                /\ last_start' = did("error")
                /\ UNCHANGED <<monitoring_active, threads, messages, result_text>>
           ELSE IF pr.lo # pr.hi
           THEN /\ messages' = Append(messages, Row("warning", "single port only", <<>>))
                /\ last_start' = did("warned")
                /\ UNCHANGED <<monitoring_active, threads, tkq, result_text>>
           ELSE /\ monitoring_active' = TRUE
                /\ threads' = Append(threads, MonitorThread("start", pr.lo, 0, "no"))
                /\ result_text' = Append(result_text, Row("info", "monitor start", <<pr.lo>>))
                /\ last_start' = did("started")
                /\ UNCHANGED <<tkq, messages>>
    /\ UNCHANGED <<variant, hotVars, batch_job, last_lookup, collect_order, osVars, scanVars, process_cache, all_ports_data>>
    /\ UNCHANGED <<busy_requests, busy_collections, current_pids, histVars>>
    /\ UNCHANGED <<current_connections, connections_text, closed>>

\* stop_monitoring()
stop_monitoring ==
    /\ IF ~monitoring_active
       THEN UNCHANGED <<monitoring_active, threads, result_text>>
       ELSE /\ monitoring_active' = FALSE
            /\ result_text' = Append(result_text, Row("warning", "monitor stop", <<>>))
            /\ threads' = [t \in 1..Len(threads) |->
                              IF threads[t].kind = "monitor" /\ Running(t)
                              THEN [threads[t] EXCEPT !.stopped =
                                       IF threads[t].pc = "poll" THEN "polling"
                                       ELSE IF threads[t].pc = "sleep" THEN "sleeping"
                                       ELSE "starting"]
                              ELSE threads[t]]
    /\ UNCHANGED <<variant, hotVars, batch_job, last_lookup, collect_order, osVars, scanVars, process_cache, tkq, all_ports_data>>
    /\ UNCHANGED <<busy_requests, busy_collections, queryVars, histVars>>
    /\ UNCHANGED <<current_connections, connections_text, closed, last_start>>

\* refresh_connections() with `text` typed into the port field
refresh_connections(text) ==
    /\ port_entry' = text
    /\ LET port_str == strip(text)
           pr == parse_port_range(port_str)
       IN  IF port_str = <<>>
           THEN /\ messages' = Append(messages, Row("warning", "empty", <<>>))
                /\ UNCHANGED <<threads, tkq>>
           ELSE IF ~pr.ok
           THEN /\ tkq' = Append(tkq, ShowErrorCallback(pr.error))
                /\ UNCHANGED <<threads, messages>>
           ELSE IF pr.lo # pr.hi
           THEN /\ messages' = Append(messages, Row("warning", "single port only", <<>>))
                /\ UNCHANGED <<threads, tkq>>
           ELSE /\ threads' = Append(threads, ConnectionsThread("poll", pr.lo))
                /\ UNCHANGED <<tkq, messages>>
    /\ UNCHANGED <<variant, hotVars, batch_job, last_lookup, collect_order, osVars, scanVars, process_cache, all_ports_data, result_text>>
    /\ UNCHANGED <<busy_requests, busy_collections, current_pids, histVars, monVars>>

\* _monitor_connections: `while self.monitoring_active` is evaluated, at the
\* start of the thread and each time time.sleep(MONITOR_INTERVAL) returns
MonitorLoop(t) ==
    /\ threads[t].kind = "monitor"
    /\ threads[t].pc \in {"start", "sleep"}
    /\ threads' = [threads EXCEPT ![t] =
                      IF monitoring_active
                      THEN [@ EXCEPT !.pc = "poll", !.polls = @ + 1]
                      ELSE [@ EXCEPT !.pc = "done"]]
    /\ UNCHANGED <<variant, hotVars, batch_job, last_lookup, collect_order, osVars, scanVars, process_cache, tkq, all_ports_data, result_text>>
    /\ UNCHANGED <<busy_requests, busy_collections, queryVars, histVars, monVars>>

\* _get_connections_info(port) from the return of psutil.net_connections()
\* to its end; the except clause logs from the worker itself
get_connections_info(t, out) ==
    /\ threads[t].kind \in {"monitor", "connections"}
    /\ threads[t].pc = "poll"
    /\ threads' = [threads EXCEPT ![t] =
                      IF @.kind = "monitor"
                      THEN [@ EXCEPT !.pc = "sleep",
                                     !.stopped = IF @ = "polling" THEN "sleeping" ELSE @]
                      ELSE [@ EXCEPT !.pc = "done"]]
    /\ IF out.raised
       THEN /\ result_text' = Append(result_text, Row("error", "connections", <<>>))
            /\ UNCHANGED <<current_connections, tkq, process_cache>>
       ELSE LET r == ConnScan(out.conns, 1, threads[t].lo,
                              [connections |-> <<>>, cache |-> process_cache],
                              clock, alive, denied)
            IN  /\ current_connections' = r.connections
                /\ tkq' = Append(tkq, Callback("update_connections", threads[t].lo,
                                               r.connections, <<>>, <<>>, FALSE))
                /\ process_cache' = r.cache
                /\ UNCHANGED result_text
    /\ UNCHANGED <<variant, hotVars, batch_job, last_lookup, collect_order, osVars, scanVars, all_ports_data>>
    /\ UNCHANGED <<busy_requests, busy_collections, queryVars, histVars>>
    /\ UNCHANGED <<monitoring_active, connections_text, closed, last_start>>

\* on_closing(): the flag is cleared and the window destroyed; the main loop
\* returns and the process ends with its daemon threads
on_closing ==
    /\ monitoring_active' = FALSE
    /\ closed' = TRUE
    /\ UNCHANGED <<variant, hotVars, batch_job, last_lookup, collect_order, osVars, scanVars, process_cache, guiVars, queryVars, histVars>>
    /\ UNCHANGED <<current_connections, connections_text, last_start>>

InitMonitor ==
    /\ variant = "win"
    /\ MonUnused
    /\ last_lookup = NoLookup
    /\ collect_order = NoOrder
    /\ batch_job = NoJob
    /\ HotUnused
    /\ alive = Pids
    /\ denied = {}
    /\ clock = 0
    /\ psutil_calls = {}
    /\ process_cache = {}
    /\ ScanUnused
    /\ GuiUnused
    /\ QueryUnused
    /\ HistUnused

\* the requests of one run are bounded
MonitorBudget == Len(threads) + Len(messages) + Cardinality(PostedErrors) < MaxMonitors

\* the polls of one loop are bounded
PollBudget(t) == threads[t].kind = "monitor" /\ threads[t].polls < MaxPolls

\* the buttons: start and refresh are disabled while a session is active,
\* stop is disabled while none is
StartEnabled == ~monitoring_active

StopEnabled == monitoring_active

MonitorSteps ==
    \/ StopEnabled /\ stop_monitoring
    \/ \E text \in MonitorInputs : MonitorBudget /\ StartEnabled /\ refresh_connections(text)
    \/ \E t \in 1..Len(threads) : (PollBudget(t) \/ ~monitoring_active) /\ MonitorLoop(t)
    \/ \E t \in 1..Len(threads), out \in NetConnections : get_connections_info(t, out)
    \/ TkDispatch
    \/ on_closing

NextMonitor ==
    /\ ~closed
    /\ \/ \E text \in MonitorInputs : MonitorBudget /\ StartEnabled /\ start_monitoring(text)
       \/ MonitorSteps

SpecMonitor == InitMonitor /\ [][NextMonitor]_vars

\* the handlers called in any state, whatever the buttons allow
NextMonitorCalls ==
    /\ ~closed
    /\ \/ \E text \in MonitorInputs : MonitorBudget /\ start_monitoring(text)
       \/ MonitorSteps

SpecMonitorCalls == InitMonitor /\ [][NextMonitorCalls]_vars

---------------------------------------------------------------------------
(* SpecParse (win): port expressions typed into the entry and queried      *)

\* what the user types into the port entry
ParseInputs ==
    { Digits(80), RangeText(8000, 8090), RangeText(8000, 8003),
      Digits(80) \o <<",">> \o Digits(443),
      Digits(80) \o <<",">> \o RangeText(8000, 8003),
      <<"h", "t", "t", "p">> }

\* the user replaces the text of the port entry
type_port(text) ==
    /\ port_entry' = text
    /\ UNCHANGED <<variant, hotVars, batch_job, last_lookup, collect_order, monVars, osVars, scanVars, process_cache, guiVars>>
    /\ UNCHANGED <<current_pids, messages, histVars>>

InitParse ==
    /\ variant = "win"
    /\ MonUnused
    /\ last_lookup = NoLookup
    /\ collect_order = NoOrder
    /\ batch_job = NoJob
    /\ HotUnused
    /\ alive = Pids
    /\ denied = {}
    /\ clock = 0
    /\ psutil_calls = {}
    /\ process_cache = {}
    /\ ScanUnused
    /\ GuiUnused
    /\ port_entry \in ParseInputs
    /\ current_pids = <<>>
    /\ messages = <<>>
    /\ HistUnused

\* the queries of one run are bounded
ParseBudget == Len(threads) + Len(messages) + Cardinality(PostedErrors) < MaxParses

NextParse ==
    \/ \E text \in ParseInputs : type_port(text)
    \/ ParseBudget /\ query_port(TRUE)
    \/ TkDispatch

SpecParse == InitParse /\ [][NextParse]_vars

---------------------------------------------------------------------------
(* SpecReject: query_port and kill_process on what the entry holds         *)

\* what the user types into the port entry
RejectInputs ==
    { Digits(80), RangeText(8000, 8003), Digits(65536), Digits(0), RangeText(0, 80),
      RangeText(80, 65536), <<"8", "0", "-">>, <<"h", "t", "t", "p">>, <<>> }

InitReject ==
    /\ variant \in Variants
    /\ MonUnused
    /\ last_lookup = NoLookup
    /\ collect_order = NoOrder
    /\ batch_job = NoJob
    /\ HotUnused
    /\ alive = Pids
    /\ denied = {}
    /\ clock = 0
    /\ psutil_calls = {}
    /\ process_cache = {}
    /\ ScanUnused
    /\ GuiUnused
    /\ port_entry \in RejectInputs
    /\ current_pids = <<>>
    /\ messages = <<>>
    /\ HistUnused

NextReject ==
    \/ \E text \in RejectInputs : type_port(text)
    \/ ParseBudget /\ query_port(TRUE)
    \/ \E answer \in BOOLEAN : ParseBudget /\ kill_process(port_entry, answer)
    \/ TkDispatch

SpecReject == InitReject /\ [][NextReject]_vars

---------------------------------------------------------------------------
(* SpecReload: run_app of the hot-reload launcher, its child, and the      *)
(* watched file                                                            *)

notHot ==
    <<variant, osVars, scanVars, process_cache, last_lookup, guiVars, batch_job, collect_order,
      queryVars, histVars, monVars>>

\* check_files_changed(): whether the recorded modification time differs
\* from the file's; the call records the file's time
check_files_changed == file_mtimes # mtime

\* process.poll() is None
ChildRunning == child = "running"

\* subprocess.Popen([sys.executable, 'port_manager.py'], ...)
Launch ==
    /\ hr_pc = "start"
    /\ child' = "running"
    /\ pipe' = 0
    /\ launches' = launches + 1
    /\ reloading' = FALSE
    /\ hr_pc' = "poll"
    /\ UNCHANGED <<mtime, file_mtimes, notHot>>

\* `while process.poll() is None`
PollChild ==
    /\ hr_pc = "poll"
    /\ hr_pc' = IF ChildRunning THEN "check" ELSE "drain"
    /\ UNCHANGED <<child, mtime, file_mtimes, pipe, launches, reloading, notHot>>

\* `if check_files_changed():` inside the loop: terminate, wait (or kill),
\* sleep and break; otherwise go on to readline
CheckInLoop ==
    /\ hr_pc = "check"
    /\ file_mtimes' = mtime
    /\ IF check_files_changed
       THEN /\ child' = IF ChildRunning THEN "terminated" ELSE child
            /\ reloading' = TRUE
            /\ hr_pc' = "drain"
       ELSE /\ hr_pc' = "read"
            /\ UNCHANGED <<child, reloading>>
    /\ UNCHANGED <<mtime, pipe, launches, notHot>>

\* process.stdout.readline(): returns when the child has written a line or
\* its end of the pipe is closed; then time.sleep(0.1)
ReadLine ==
    /\ hr_pc = "read"
    /\ pipe > 0 \/ ~ChildRunning
    /\ pipe' = IF pipe > 0 THEN pipe - 1 ELSE 0
    /\ hr_pc' = "poll"
    /\ UNCHANGED <<child, mtime, file_mtimes, launches, reloading, notHot>>

\* process.stdout.read() after the loop: the rest of the child's output
Drain ==
    /\ hr_pc = "drain"
    /\ ~ChildRunning
    /\ pipe' = 0
    /\ hr_pc' = "decide"
    /\ UNCHANGED <<child, mtime, file_mtimes, launches, reloading, notHot>>

\* `if process.poll() is not None and not check_files_changed():`
Decide ==
    /\ hr_pc = "decide"
    /\ file_mtimes' = mtime
    /\ hr_pc' = IF ~ChildRunning /\ ~check_files_changed THEN "prompt" ELSE "start"
    /\ UNCHANGED <<child, mtime, pipe, launches, reloading, notHot>>

\* input("是否重新启动? (y/n): "): anything but y leaves the loop
Prompt(answer) ==
    /\ hr_pc = "prompt"
    /\ hr_pc' = IF answer = "y" THEN "start" ELSE "exit"
    /\ UNCHANGED <<child, mtime, file_mtimes, pipe, launches, reloading, notHot>>

\* the developer saves the watched file
FileEdit ==
    /\ mtime' = mtime + 1
    /\ UNCHANGED <<hr_pc, child, file_mtimes, pipe, launches, reloading, notHot>>

\* the child prints a line
ChildWrite ==
    /\ ChildRunning
    /\ pipe' = pipe + 1
    /\ UNCHANGED <<hr_pc, child, mtime, file_mtimes, launches, reloading, notHot>>

\* the child exits on its own (the window is closed, or it crashes)
ChildExit ==
    /\ ChildRunning
    /\ child' = "exited"
    /\ UNCHANGED <<hr_pc, mtime, file_mtimes, pipe, launches, reloading, notHot>>

InitReload ==
    /\ variant = "win"
    /\ MonUnused
    /\ last_lookup = NoLookup
    /\ collect_order = NoOrder
    /\ batch_job = NoJob
    /\ alive = Pids
    /\ denied = {}
    /\ clock = 0
    /\ psutil_calls = {}
    /\ process_cache = {}
    /\ ScanUnused
    /\ GuiUnused
    /\ QueryUnused
    /\ HistUnused
    \* run_app records the files' times before its loop
    /\ hr_pc = "start"
    /\ child = "none"
    /\ mtime = 0
    /\ file_mtimes = 0
    /\ pipe = 0
    /\ launches = 0
    /\ reloading = FALSE

\* the steps of run_app
LauncherStep ==
    \/ launches < MaxLaunches /\ Launch
    \/ PollChild
    \/ CheckInLoop
    \/ ReadLine
    \/ Drain
    \/ Decide
    \/ \E answer \in {"y", "n"} : Prompt(answer)

NextReload ==
    \/ LauncherStep
    \/ mtime < MaxEdits /\ FileEdit
    \/ pipe < MaxOutput /\ ChildWrite
    \/ ChildExit

SpecReload == InitReload /\ [][NextReload]_vars

\* run_app is a sequential program: it takes its next step when it has one
SpecReloadFair == SpecReload /\ WF_vars(LauncherStep)

---------------------------------------------------------------------------
(* SpecCache (win): _get_process_info_cached while time passes and         *)
(* processes come and go                                                   *)

\* the pid texts looked up
LookupInputs == {Digits(4), Digits(1234), <<"x">>}

cacheFrame ==
    UNCHANGED <<variant, scanVars, guiVars, batch_job, collect_order, queryVars, histVars, monVars,
                hotVars>>

\* one call of _get_process_info_cached(pid): what it returned ("data",
\* "None", or "ValueError" for an exception leaving the function) and the
\* time stamp of the data returned
Lookup(pid) ==
    LET r   == get_process_info_cached(process_cache, pid, clock, alive, denied)
        hit == CacheHit(process_cache, pid, clock)
    IN  /\ process_cache' = r.cache
        /\ last_lookup' =
              [pid |-> pid, at |-> clock,
               returned |-> IF r.raised THEN "ValueError"
                            ELSE IF r.info.ok THEN "data" ELSE "None",
               timestamp |-> IF r.raised \/ ~r.info.ok THEN 0
                             ELSE IF hit # {} THEN (CHOOSE e \in hit : TRUE).timestamp
                             ELSE clock]
        /\ UNCHANGED osVars
        /\ cacheFrame

\* a second passes
Tick ==
    /\ clock' = clock + 1
    /\ UNCHANGED <<alive, denied, psutil_calls, process_cache, last_lookup>>
    /\ cacheFrame

\* a process ends, or a process with this pid starts
ProcessTableChange(p) ==
    /\ alive' = IF p \in alive THEN alive \ {p} ELSE alive \cup {p}
    /\ UNCHANGED <<denied, clock, psutil_calls, process_cache, last_lookup>>
    /\ cacheFrame

InitCache ==
    /\ variant = "win"
    /\ MonUnused
    /\ last_lookup = NoLookup
    /\ collect_order = NoOrder
    /\ batch_job = NoJob
    /\ HotUnused
    /\ alive \in SUBSET Pids
    /\ denied \in {{}, {4}}
    /\ clock = 0
    /\ psutil_calls = {}
    /\ process_cache = {}
    /\ ScanUnused
    /\ GuiUnused
    /\ QueryUnused
    /\ HistUnused

NextCache ==
    \/ \E pid \in LookupInputs : Lookup(pid)
    \/ clock < MaxClock /\ Tick
    \/ \E p \in Pids : ProcessTableChange(p)

SpecCache == InitCache /\ [][NextCache]_vars

---------------------------------------------------------------------------
(* Claims                                                                  *)

\* C1: at most one snapshot collection (a netstat run on behalf of
\* refresh_all) is in flight at any time, whatever refresh requests arrive.
C1_AtMostOneCollectionInFlight ==
    Cardinality({t \in RefreshWorkers : Collecting(t)}) <= 1

\* C2: when k >= 1 refresh requests arrived while a refresh was running, then
\* once the workers are idle again exactly one additional collection has run
\* (two in all), not k and not zero.
C2_OverlappingRequestsCoalesce ==
    (RefreshIdle /\ busy_requests >= 2) => busy_collections = 2

\* the identity key (port, pid, remote_address, state) of a listed entry
IdentityKey(e) == <<IntVal(e.port), e.pid, e.remote, e.state>>

NoDuplicateKeys(list) ==
    \A i, j \in 1..Len(list) : i # j => IdentityKey(list[i]) # IdentityKey(list[j])

\* C3: for every raw netstat output, the list a refresh builds holds no two
\* entries with the same identity key (port, pid, remote_address, state).
C3_NoDuplicateIdentityKeys == built.done => NoDuplicateKeys(built.listening_ports)

\* the local port of a netstat line
LocalPort(line) == IntVal(AfterLastColon(line.toks[2]))

\* a record the query can report: a LISTENING or ESTABLISHED line with a numeric pid
IsRecord(line) ==
    /\ Len(line.toks) >= 5
    /\ line.toks[4] \in {<<"LISTENING">>, <<"ESTABLISHED">>}
    /\ IntOk(line.toks[5])

LocalOf(rows) == [k \in 1..Len(rows) |-> rows[k].text[1]]

IsLocalRow(r) == r.what = "local"

ReportedLocals == LocalOf(SelectSeq(result_text, IsLocalRow))

QueryFailed ==
    \E k \in 1..Len(result_text) : result_text[k].what \in {"nonzero", "timeout", "raised"}

QueryDisplayed ==
    /\ Len(threads) = 1
    /\ threads[1].pc = "done"
    /\ tkq = <<>>
    /\ ~QueryFailed

InQueriedRange(line) ==
    IsRecord(line) /\ threads[1].lo <= LocalPort(line) /\ LocalPort(line) <= threads[1].hi

ExpectedLocals ==
    LET sel == SelectSeq(raw_lines, InQueriedRange)
    IN  [k \in 1..Len(sel) |-> sel[k].toks[2]]

\* C4: once a query for [a, b] is displayed, the reported records are exactly
\* the netstat records whose local port p satisfies a <= p <= b, in order,
\* and none whose local port lies outside [a, b].
C4_QueryReportsExactlyRange == QueryDisplayed => ReportedLocals = ExpectedLocals

\* the text is a range a-b of two integers with a > b
ReversedRange(text) ==
    LET t == strip(text)
    IN  /\ Contains(t, <<"-">>)
        /\ LET k == FirstIndex(t, "-")
           IN  /\ IntOk(SubSeq(t, 1, k - 1))
               /\ IntOk(SubSeq(t, k + 1, Len(t)))
               /\ IntVal(SubSeq(t, 1, k - 1)) > IntVal(SubSeq(t, k + 1, Len(t)))

\* C5: for a range expression a-b with a > b no query worker is ever started;
\* the expression is rejected and reported instead.
C5_ReversedRangeRejected == ReversedRange(port_entry) => threads = <<>>

\* C6: the history list holds at most MAX_HISTORY entries in every state from
\* the start-up load onward.
C6_HistoryWithinCapacity == Len(port_history.items) <= MAX_HISTORY

RECURSIVE Without(_, _)
\* the entries other than x, in their order
Without(items, x) ==
    IF items = <<>> THEN <<>>
    ELSE (IF Head(items) = x THEN <<>> ELSE <<Head(items)>>) \o Without(Tail(items), x)

\* C7: after add_to_history(p), p is at index 0; if p was present the length is
\* unchanged and the other entries keep their relative order; if p was absent
\* and the list was full, exactly the last entry was dropped.
C7_AddMovesToFront ==
    last_op.op = "add" =>
        /\ port_history.items # <<>> /\ port_history.items[1] = last_op.arg
        /\ IsIn(last_op.before, last_op.arg) =>
              /\ Len(port_history.items) = Len(last_op.before)
              /\ Without(port_history.items, last_op.arg) = Without(last_op.before, last_op.arg)
        /\ (~IsIn(last_op.before, last_op.arg) /\ Len(last_op.before) >= MAX_HISTORY) =>
              port_history.items = <<last_op.arg>>
                  \o SubSeq(last_op.before, 1, Len(last_op.before) - 1)

\* C8: the history list never holds the same expression twice.
C8_HistoryHasNoDuplicates ==
    \A i, j \in 1..Len(port_history.items) :
        i # j => port_history.items[i] # port_history.items[j]

IsListOfStrings(value) ==
    value.type = "list" /\ \A k \in 1..Len(value.items) : value.items[k].t = "str"

\* C9: the in-memory history is always a list of strings, and right after a
\* load from a file that is missing, unreadable or not a JSON array of strings
\* it is the empty list.
C9_LoadYieldsListOfStrings ==
    /\ IsListOfStrings(port_history)
    /\ (last_op.count = 0 /\ ~(history_file.kind = "json" /\ IsListOfStrings(history_file.value)))
          => port_history = HList(<<>>)

\* the worker's first psutil call found no such process
NotFoundAtStart(t) ==
    Call(t, threads[t].lo, "Process", 0, "NoSuchProcess") \in psutil_calls

\* terminate() or kill() was called by the worker
Escalated(t) ==
    \E c \in psutil_calls : c.thread = t /\ c.call \in {"terminate", "kill"}

\* the not-found message for the pid is on the panel or on its way there
NotFoundReported(pid) ==
    \/ \E k \in 1..Len(result_text) : result_text[k] = KillRow("error", "NoSuchProcess", pid)
    \/ \E k \in 1..Len(tkq) : \E j \in 1..Len(tkq[k].rows) :
           tkq[k].cb = "log" /\ tkq[k].rows[j] = KillRow("error", "NoSuchProcess", pid)

\* C10: a kill worker whose pid is not in the process table never calls
\* terminate() or kill(), never dies of an exception (the verification step
\* included), and ends with the not-found message for that pid reported.
C10_MissingPidIsNotFound ==
    \A t \in KillWorkers :
        NotFoundAtStart(t) =>
            /\ ~Escalated(t)
            /\ threads[t].pc # "raised"
            /\ threads[t].pc = "done" => NotFoundReported(threads[t].lo)

\* the messages that close the handling of one pid
OutcomeKinds == {"terminated", "forced", "NoSuchProcess", "AccessDenied", "TimeoutExpired"}

IsOutcomeOf(row, pid) == row.what \in OutcomeKinds /\ row.text = <<Digits(pid)>>

\* an outcome message for the pid is on the panel, or in a callback that will log it
OutcomeReported(pid) ==
    \/ \E k \in 1..Len(result_text) : IsOutcomeOf(result_text[k], pid)
    \/ \E k \in 1..Len(tkq) : \E j \in 1..Len(tkq[k].rows) :
           tkq[k].cb = "log" /\ IsOutcomeOf(tkq[k].rows[j], pid)

TimesAttempted(t, pid) ==
    Cardinality({i \in 1..Len(threads[t].attempts) : threads[t].attempts[i] = pid})

\* C11: once the loop of a batch worker is over, every pid of its set has been
\* attempted exactly once and has its own outcome reported, whatever happened
\* to the pids before it.
C11_EveryPidAttemptedOnceWithOutcome ==
    \A t \in BatchWorkers :
        (threads[t].pc \in {"recheck", "done"} /\ threads[t].pids # {}) =>
            \A pid \in threads[t].pids :
                TimesAttempted(t, pid) = 1 /\ OutcomeReported(IntVal(pid))

\* the attempts alone: every pid of the set exactly once
BatchAttemptsExact ==
    \A t \in BatchWorkers :
        (threads[t].pc \in {"recheck", "done"} /\ threads[t].pids # {}) =>
            \A pid \in threads[t].pids : TimesAttempted(t, pid) = 1

\* the positions of a worker inside the handling of one pid
TerminationSteps == {"start", "name", "terminate", "wait", "kill", "wait forced"}

\* C12: per pid the order is terminate, wait 5 s, kill, wait 3 s: kill() is
\* called only after terminate() went through and the 5 s wait timed out,
\* never after a wait that succeeded; the 3 s wait only follows a kill() that
\* went through, and after it the handling of the pid is over.
C12_GracefulThenForced ==
    \A c \in psutil_calls :
        /\ c.call = "wait" => c.timeout \in {GracefulWait, ForcedWait}
        /\ (c.call = "wait" /\ c.timeout = GracefulWait) =>
              Call(c.thread, c.pid, "terminate", 0, "ok") \in psutil_calls
        /\ c.call = "kill" =>
              /\ Call(c.thread, c.pid, "terminate", 0, "ok") \in psutil_calls
              /\ Call(c.thread, c.pid, "wait", GracefulWait, "TimeoutExpired") \in psutil_calls
              /\ Call(c.thread, c.pid, "wait", GracefulWait, "ok") \notin psutil_calls
        /\ (c.call = "wait" /\ c.timeout = ForcedWait) =>
              /\ Call(c.thread, c.pid, "kill", 0, "ok") \in psutil_calls
              /\ TargetPid(c.thread) = c.pid => threads[c.thread].pc \notin TerminationSteps

\* a worker is through: terminate, a 5 s wait that timed out, kill, the 3 s wait
C12_Witness ==
    \E t \in KillWorkers :
        /\ threads[t].pc = "done"
        /\ Call(t, threads[t].lo, "wait", GracefulWait, "TimeoutExpired") \in psutil_calls
        /\ Call(t, threads[t].lo, "kill", 0, "ok") \in psutil_calls
        /\ \E r \in {"ok", "TimeoutExpired"} :
               Call(t, threads[t].lo, "wait", ForcedWait, r) \in psutil_calls

\* this step is the end of a collection whose netstat run failed
FailedCollectionStep ==
    \E t \in 1..Len(threads) :
        threads[t].pc = "netstat" /\ threads'[t].pc = "failed"

\* the callbacks this step posted only write messages
PostsOnlyMessages ==
    /\ Len(tkq') >= Len(tkq)
    /\ \A k \in (Len(tkq) + 1)..Len(tkq') : tkq'[k].cb \in {"log", "log_e"}

\* this step runs a callback that only writes a message
MessageCallbackStep ==
    tkq # <<>> /\ Head(tkq).cb \in {"log", "log_e"} /\ tkq' = Tail(tkq)

TableKept == all_ports_data' = all_ports_data /\ current_pids' = current_pids

\* C13: a collection that fails leaves all_ports_data and current_pids as they
\* were: the worker's failing step does not write them and posts nothing but
\* messages, and running a message callback does not write them either.
C13_FailedCollectionKeepsTable ==
    [][/\ FailedCollectionStep => (TableKept /\ PostsOnlyMessages)
       /\ MessageCallbackStep => TableKept]_vars

\* a failed collection has been reported while the snapshot of an earlier
\* refresh is in place
C13_Witness ==
    /\ all_ports_data # <<>>
    /\ \E t \in 1..Len(threads) : threads[t].pc = "failed"
    /\ \E k \in 1..Len(result_text) : result_text[k].what \in FailureStatuses(variant)


\* C14: a search that runs while a refresh is in progress reads the table as
\* the complete list of one finished scan (or the empty list of start-up),
\* never a list a worker is still building.
CompleteSnapshots ==
    {<<>>} \cup {refresh_scan("win", o, {}, 0, Pids, {}).all_ports_data : o \in SchedOutputs}

Scanning(t) == threads[t].pc = "scan"

MidScan(t) ==
    /\ Scanning(t)
    /\ threads[t].i <= Len(threads[t].lines)
    /\ threads[t].acc.all_ports_data # <<>>

SearchStep == \E text \in Keywords : lower(strip(text)) # <<>> /\ filter_ports(text)

C14_SearchReadsCompleteSnapshot ==
    [][SearchStep =>
          /\ all_ports_data \in CompleteSnapshots
          /\ \E text \in Keywords : result_text' = SearchRows(lower(strip(text)), all_ports_data)]_vars

C14_Witness ==
    /\ \E t \in 1..Len(threads) : MidScan(t) /\ threads[t].acc.all_ports_data # all_ports_data
    /\ all_ports_data # <<>>
    /\ result_text # <<>>
    /\ result_text[1] = Row("header", "search", <<Len(all_ports_data)>>)

\* C15: at most one connection-monitor polling loop is running at any time,
\* after any sequence of start, stop and window-close.  A loop is running
\* while its thread is inside an iteration (the poll or the sleep after it)
\* and its `while` condition holds.
LoopRunning(t) ==
    /\ threads[t].kind = "monitor"
    /\ threads[t].pc \in {"poll", "sleep"}
    /\ monitoring_active

C15_AtMostOnePollingLoop ==
    ~closed => Cardinality({t \in 1..Len(threads) : LoopRunning(t)}) <= 1

\* C16: a loop that was alive when stop_monitoring ran begins no further
\* poll once its sleep ends, whatever is done afterwards.
C16_StoppedLoopPollsNoMore ==
    [][\A t \in MonitorWorkers :
          threads[t].stopped = "sleeping" => threads'[t].pc # "poll"]_vars

\* C17: a poll that was inside the OS call when the session was stopped
\* completes without updating current_connections or posting to the
\* connections display.
InFlightPollReturns(t) ==
    /\ threads[t].stopped = "polling"
    /\ threads'[t].stopped # "polling"

C17_InFlightPollDiscarded ==
    [][\A t \in MonitorWorkers :
          InFlightPollReturns(t) =>
              /\ current_connections' = current_connections
              /\ tkq' = tkq]_vars

SearchShown == result_text # <<>> /\ result_text[1].what = "search"

MatchRows == SelectSeq(result_text, LAMBDA row : row.what = "match")

RowPort(row) == [port |-> row.text[1]]

C19_SearchResultsSortedByPort ==
    SearchShown =>
        \A i, j \in 1..Len(MatchRows) :
            i < j => SortKey(RowPort(MatchRows[i])) <= SortKey(RowPort(MatchRows[j]))

\* C20: a port expression of comma-separated single ports and inclusive
\* ranges is parsed to exactly the union of the ports it names; the query
\* started for it covers that set.
RECURSIVE SplitComma(_)
SplitComma(s) ==
    IF FirstIndex(s, ",") = 0 THEN <<s>>
    ELSE <<SubSeq(s, 1, FirstIndex(s, ",") - 1)>>
             \o SplitComma(SubSeq(s, FirstIndex(s, ",") + 1, Len(s)))

ItemLo(item) ==
    IF FirstIndex(item, "-") = 0 THEN item ELSE SubSeq(item, 1, FirstIndex(item, "-") - 1)

ItemHi(item) ==
    IF FirstIndex(item, "-") = 0 THEN item
    ELSE SubSeq(item, FirstIndex(item, "-") + 1, Len(item))

ItemNamed(item) ==
    /\ isdigit(ItemLo(item)) /\ isdigit(ItemHi(item))
    /\ PortInRange(DecVal(ItemLo(item))) /\ PortInRange(DecVal(ItemHi(item)))
    /\ DecVal(ItemLo(item)) <= DecVal(ItemHi(item))

PortExpression(s) == \A k \in 1..Len(SplitComma(s)) : ItemNamed(SplitComma(s)[k])

NamedPorts(s) ==
    UNION {DecVal(ItemLo(SplitComma(s)[k]))..DecVal(ItemHi(SplitComma(s)[k])) :
              k \in 1..Len(SplitComma(s))}

QueryStep == query_port(TRUE)

C20_ExpressionParsedToUnion ==
    [][(PortExpression(port_entry) /\ QueryStep) =>
          /\ Len(threads') = Len(threads) + 1
          /\ threads'[Len(threads')].lo..threads'[Len(threads')].hi = NamedPorts(port_entry)]_vars

\* the part that holds: one port or one inclusive range is parsed to its ports
SingleRangeParsed ==
    [][(PortExpression(port_entry) /\ Len(SplitComma(port_entry)) = 1 /\ QueryStep) =>
          /\ Len(threads') = Len(threads) + 1
          /\ threads'[Len(threads')].lo..threads'[Len(threads')].hi = NamedPorts(port_entry)]_vars

\* C21: when the port entry holds a malformed expression or a port outside
\* 1..65535, query_port and kill_process return before any OS interaction:
\* no worker is started (so netstat is not run and nothing is terminated)
\* and port_history, current_pids and all_ports_data stay as they are.
NumberOutside(s) == IntOk(s) /\ (IntVal(s) < 1 \/ IntVal(s) > 65535)

BadPortText(text) ==
    LET t == strip(text)
        k == FirstIndex(t, "-")
    IN  IF k = 0 THEN ~IntOk(t) \/ NumberOutside(t)
        ELSE \/ ~IntOk(SubSeq(t, 1, k - 1)) \/ ~IntOk(SubSeq(t, k + 1, Len(t)))
             \/ NumberOutside(SubSeq(t, 1, k - 1))
             \/ NumberOutside(SubSeq(t, k + 1, Len(t)))

KillStep == \E answer \in BOOLEAN : kill_process(port_entry, answer)

C21_BadPortRejectedBeforeOS ==
    [][(BadPortText(port_entry) /\ (QueryStep \/ KillStep)) =>
          UNCHANGED <<threads, psutil_calls, alive, port_history, history_file,
                      current_pids, all_ports_data>>]_vars

C21_Witness ==
    /\ BadPortText(port_entry)
    /\ strip(port_entry) # <<>>
    /\ threads = <<>>
    /\ port_history.items = <<>>
    /\ messages # <<>> \/ PostedErrors # {}

\* C23: when the watched file changes while the application runs, the
\* launcher stops the child and starts a new one without asking; the
\* restart prompt appears only when the child exited on its own with no
\* file change.
C23_PromptOnlyAfterOwnExit ==
    hr_pc = "prompt" => child = "exited" /\ ~reloading

\* C29: whenever the watched file's modification time changes while the
\* child is running, the launcher eventually notices the change (and then
\* restarts the child), whether or not the child writes any output.
ChangeUnseen == ChildRunning /\ file_mtimes # mtime

C29_ChangeEventuallyDetected ==
    ChangeUnseen ~> (file_mtimes = mtime \/ ~ChildRunning)

\* C25: the process-info cache never returns data whose age is at or beyond
\* the TTL of 5 s; a lookup of an expired entry resolves the process anew,
\* and when that fails the stale data is not returned.
ExpiredEntry(pid) ==
    \E e \in process_cache : e.pid = pid /\ clock - e.timestamp >= cache_ttl

C25_CacheReturnsNothingStale ==
    last_lookup.returned = "data" => last_lookup.at - last_lookup.timestamp < 5

C25_Witness ==
    /\ last_lookup.at = clock
    /\ last_lookup.returned = "None"
    /\ ExpiredEntry(last_lookup.pid)

\* C24: every entry a refresh stores has a port in 1..65535; a line whose
\* local port is not a number or lies outside that range is dropped, for
\* every netstat output.
StoredPortValid(e) == IntOk(e.port) /\ 1 <= IntVal(e.port) /\ IntVal(e.port) <= 65535

\* a listening line with a pid whose local port is no port
BadPortLine(line) ==
    /\ Len(line.toks) >= 5
    /\ line.toks[4] = <<"LISTENING">>
    /\ Contains(line.toks[2], <<":">>)
    /\ ~StoredPortValid([port |-> AfterLastColon(line.toks[2])])

C24_StoredPortsInRange ==
    built.done =>
        /\ \A k \in 1..Len(built.listening_ports) : StoredPortValid(built.listening_ports[k])
        /\ \A k \in 1..Len(built.all_ports_data) : StoredPortValid(built.all_ports_data[k])

C24_Witness ==
    /\ built.done
    /\ built.listening_ports # <<>>
    /\ \E i \in 1..Len(raw_lines) :
          /\ BadPortLine(raw_lines[i])
          /\ \A k \in 1..Len(built.listening_ports) :
                built.listening_ports[k].address # raw_lines[i].toks[2]

\* C26: the table built from a raw listing is exactly the sequence of first
\* occurrences of each distinct identity key (port, pid, remote_address,
\* state) among the accepted records, in input order.
AcceptedRecords == SelectSeq(raw_lines, RefreshAccepts)

RECURSIVE FirstOccurrences(_)
FirstOccurrences(keys) ==
    IF keys = <<>> THEN <<>>
    ELSE LET front == FirstOccurrences(SubSeq(keys, 1, Len(keys) - 1))
             last  == keys[Len(keys)]
         IN  IF \E k \in 1..Len(front) : front[k] = last THEN front ELSE Append(front, last)

C26_TableIsFirstOccurrences ==
    built.done =>
        [k \in 1..Len(built.listening_ports) |-> IdentityKey(built.listening_ports[k])]
            = FirstOccurrences([k \in 1..Len(AcceptedRecords) |->
                                   IdentityKey(PortTuple(AcceptedRecords[k]))])

\* C27: listings are installed in the order in which their collections
\* started: the table is never overwritten by a listing whose netstat run
\* started before that of the listing already installed.
PendingInstalls == Cardinality({k \in 1..Len(tkq) : tkq[k].cb = "update_ui"})

Installed == SubSeq(collect_order.handed, 1, Len(collect_order.handed) - PendingInstalls)

StartRank(t) == CHOOSE k \in 1..Len(collect_order.started) : collect_order.started[k] = t

C27_InstalledInStartOrder ==
    variant = "win" =>
        \A i, j \in 1..Len(Installed) :
            i < j => StartRank(Installed[i]) < StartRank(Installed[j])

\* C28: terminate-by-port for the range [a, b] calls terminate() or kill()
\* only on pids that own a record whose local port lies in [a, b]; a process
\* whose matching lines carry the digits elsewhere (in a longer port or in
\* the remote address) is never terminated.
LocalOwners(lines, lo, hi) ==
    {IntVal(lines[k].toks[5]) : k \in {i \in 1..Len(lines) :
        /\ IsRecord(lines[i])
        /\ IntOk(AfterLastColon(lines[i].toks[2]))
        /\ LocalPort(lines[i]) \in lo..hi}}

C28_OnlyLocalPortOwnersTerminated ==
    \A c \in psutil_calls :
        (c.call \in {"terminate", "kill"} /\ threads[c.thread].kind = "batch") =>
            c.pid \in LocalOwners(threads[c.thread].lines, threads[c.thread].lo,
                                  threads[c.thread].hi)

\* C30: a search without a match leaves no chunk job pending, so the panel
\* keeps only the 'not found' message and no row of an insertion started
\* before the search is appended behind it; and at no time is more than one
\* chunk job pending.
NoMatchSearch ==
    /\ tkq' = tkq
    /\ result_text' # result_text
    /\ Len(result_text') = 1
    /\ result_text'[1].what = "search none"

C30_NoMatchSearchEndsChunkJob ==
    [][(NoMatchSearch => batch_job'.timers = <<>>) /\ Len(batch_job'.timers) <= 1]_vars

\* the second part alone: at most one chunk job is pending
AtMostOneChunkJob == Len(batch_job.timers) <= 1

\* a row of the interrupted listing shown behind the 'not found' message
StaleRowAfterNoMatch ==
    /\ Len(result_text) > 1
    /\ result_text[1].what = "search none"
    /\ result_text[2].what = "port"


====
